---- MODULE Spec2Model ----
(***************************************************************************)
(* Model of the audit service's ingestion pipeline:                        *)
(*   internal/buffer/buffer.go      Buffer (Get, NewBuffer, AddLogs,       *)
(*                                  startWorker, flush)                    *)
(*   internal/auditlog/service      AuditService.Get,                      *)
(*                                  AuditLogDB.BatchInsertAuditLogs        *)
(* An audit event is the pair <<c, i>>: entry i of the logs array of the   *)
(* request handled by goroutine c.                                         *)
(***************************************************************************)
EXTENDS Integers, Sequences, FiniteSets, TLC

\* ---------------------------------------------------------------- bounds
MaxEvents == 3
MaxCap == 2
MaxThreshold == 2
MaxFailures == 1
NumGoroutines == 2
MaxSegs == 4
MaxBodyLen == 3

\* ------------------------------------------------------------- constants
DefaultMaxSize == 100
DefaultBatchSize == 100
MaxLimit == 500

Callers == 1..MaxEvents
Goroutines == 1..NumGoroutines
Flushing == {"flushSize", "flushTick"}

VARIABLES
    maxSize,      \* Buffer.maxSize: capacity of logChan
    batchSize,    \* Buffer.batchSize: the size threshold of a flush
    logChan,      \* Buffer.logChan: the buffered channel, oldest event first
    batch,        \* startWorker's local batch
    wpc,          \* where the worker goroutine is: "select", "flushSize", "flushTick"
    tickPending,  \* ticker.C holds a tick (a channel of capacity 1)
    store,        \* rows of audit_logs, in insertion order
    seq,          \* audit_logs_id_seq: the last value the id column drew
    call,         \* per request goroutine: its AddLogs call; while it runs, the
                  \* free capacity at its start (free), whether the worker
                  \* received (drainSeen) or another call enqueued (otherEnq),
                  \* whether the worker was inside one flush all along (inFlush)
    dropped,      \* history: events that took the default branch of AddLogs
    drained,      \* history: events in the order the worker received them
    flushed,      \* history: events passed to BatchInsertAuditLogs, in call order
    lost,         \* history: events of the BatchInsertAuditLogs calls that failed
    failures,     \* history: BatchInsertAuditLogs calls that failed so far
    lastCall,     \* history: the AddLogs call that returned last
    bufferInstance, \* buffer.bufferInstance: 0 is nil, else the Buffer's number
    auditService,   \* service.auditService: 0 is nil, else its Buffer's number
    nBuffers,       \* Buffers constructed so far by NewBuffer
    workers,        \* Buffers whose startWorker goroutine runs
    getter,         \* per goroutine: its position in service.Get / buffer.Get
    resp,           \* the last HTTP exchange: the request and what was answered
    norm            \* a call of the normalizers: its arguments and results

pipeVars == <<maxSize, batchSize, logChan, batch, wpc, tickPending, store, seq, call,
              dropped, drained, flushed, lost, failures, lastCall>>
getVars == <<bufferInstance, auditService, nBuffers, workers, getter>>
httpVars == <<resp, norm>>
vars == <<pipeVars, getVars, httpVars>>

\* ------------------------------------------------------------ helpers
Range(s) == {s[i] : i \in 1..Len(s)}
Min(a, b) == IF a < b THEN a ELSE b
Occurrences(s, e) == Cardinality({i \in 1..Len(s) : s[i] = e})
Pos(s, e) == CHOOSE i \in 1..Len(s) : s[i] = e

\* ------------------------------------------------------------ buffer.go
\* NewBuffer: a zero configuration value takes the default.
NewBuffer(cfgMaxSize, cfgBatchSize) ==
    [maxSize |-> IF cfgMaxSize = 0 THEN DefaultMaxSize ELSE cfgMaxSize,
     batchSize |-> IF cfgBatchSize = 0 THEN DefaultBatchSize ELSE cfgBatchSize]

\* (mutant) the default branch counts the dropped event as added.
AddLogsIter_CountsDrops(ch, cap, e, addedCount) ==
    IF Len(ch) < cap
    THEN [chan |-> Append(ch, e), addedCount |-> addedCount + 1, drop |-> FALSE]
    ELSE [chan |-> ch, addedCount |-> addedCount + 1, drop |-> TRUE]

\* (mutant) a plain send, b.logChan <- logEntry, waits for room.
SelectReady_PlainSend(ch, cap) == Len(ch) < cap

\* The select of AddLogs has a default branch: it is ready whatever the channel.
SelectReady(ch, cap) == TRUE

\* (mutant) the send succeeds on a channel that is already full.
AddLogsIter_OffByOne(ch, cap, e, addedCount) ==
    IF Len(ch) <= cap
    THEN [chan |-> Append(ch, e), addedCount |-> addedCount + 1, drop |-> FALSE]
    ELSE [chan |-> ch, addedCount |-> addedCount, drop |-> TRUE]

\* One iteration of the loop of AddLogs: the select with a default branch.
AddLogsIter(ch, cap, e, addedCount) ==
    IF Len(ch) < cap
    THEN [chan |-> Append(ch, e), addedCount |-> addedCount + 1, drop |-> FALSE]
    ELSE [chan |-> ch, addedCount |-> addedCount, drop |-> TRUE]

\* (mutant) the size check is missing: only the ticker flushes.
RecvCase_NoSizeFlush(ch, b, threshold) ==
    [chan |-> Tail(ch), batch |-> Append(b, Head(ch)), pc |-> "select"]

\* (mutant) the received event goes to the front of the batch.
RecvCase_Prepends(ch, b, threshold) ==
    LET nb == <<Head(ch)>> \o b
    IN [chan |-> Tail(ch), batch |-> nb,
        pc |-> IF Len(nb) >= threshold THEN "flushSize" ELSE "select"]

\* (mutant) the flush waits for the batch to exceed the threshold.
RecvCase_FlushAbove(ch, b, threshold) ==
    LET nb == Append(b, Head(ch))
    IN [chan |-> Tail(ch), batch |-> nb,
        pc |-> IF Len(nb) > threshold THEN "flushSize" ELSE "select"]

\* case logEntry := <-b.logChan of startWorker.
RecvCase(ch, b, threshold) ==
    LET nb == Append(b, Head(ch))
    IN [chan |-> Tail(ch), batch |-> nb,
        pc |-> IF Len(nb) >= threshold THEN "flushSize" ELSE "select"]

\* (mutant) the ticker case flushes without looking at the batch.
TickCase_FlushesEmpty(b) == "flushTick"

\* (mutant) the ticker case never flushes.
TickCase_NeverFlushes(b) == "select"

\* case <-ticker.C of startWorker.
TickCase(b) == IF Len(b) > 0 THEN "flushTick" ELSE "select"

\* (mutant) the batch is not reset after the flush.
ResetBatch_KeepsBatch(b, err) == b

\* (mutant) a batch whose flush failed is kept for the next flush.
ResetBatch_RetryOnError(b, err) == IF err THEN b ELSE <<>>

\* batch = batch[:0] after b.flush(batch), whatever the flush did.
ResetBatch(b, err) == <<>>

\* ------------------------------------------------------------ values
\* A Go string is the sequence of its characters.
Digits == {"0", "1", "2", "3", "4", "5", "6", "7", "8", "9"}
Quote == "\""
Backslash == "\\"

\* A *string: nil, or a pointer to the string v.
Nil == [nil |-> TRUE, v |-> <<>>]
Ptr(v) == [nil |-> FALSE, v |-> v]

\* An interface{} holding what encoding/json decodes: nil, a number, a string.
NilValue == [t |-> "nil", v |-> <<>>]

\* ------------------------------------------------------------ encoding/json
\* JSON texts are modelled over spaces, digits, letters, quotes and
\* backslashes: the documents are null, unsigned integers and strings.
RECURSIVE TrimSpace(_)
TrimSpace(s) ==
    IF Len(s) = 0 THEN s
    ELSE IF Head(s) = " " THEN TrimSpace(Tail(s))
    ELSE IF s[Len(s)] = " " THEN TrimSpace(SubSeq(s, 1, Len(s) - 1))
    ELSE s

IsJSONNumber(t) ==
    /\ Len(t) > 0
    /\ \A i \in 1..Len(t) : t[i] \in Digits
    /\ Len(t) > 1 => t[1] # "0"

\* The inside of a string literal: no bare quote, every backslash followed by
\* a quote or a backslash.
RECURSIVE WellEscaped(_)
WellEscaped(s) ==
    IF Len(s) = 0 THEN TRUE
    ELSE IF Head(s) = Backslash
         THEN /\ Len(s) >= 2
              /\ s[2] \in {Quote, Backslash}
              /\ WellEscaped(SubSeq(s, 3, Len(s)))
    ELSE IF Head(s) = Quote THEN FALSE
    ELSE WellEscaped(Tail(s))

IsJSONString(t) ==
    /\ Len(t) >= 2
    /\ t[1] = Quote
    /\ t[Len(t)] = Quote
    /\ WellEscaped(SubSeq(t, 2, Len(t) - 1))

RECURSIVE Unescape(_)
Unescape(s) ==
    IF Len(s) = 0 THEN s
    ELSE IF Head(s) = Backslash THEN <<s[2]>> \o Unescape(SubSeq(s, 3, Len(s)))
    ELSE <<Head(s)>> \o Unescape(Tail(s))

RECURSIVE Escape(_)
Escape(s) ==
    IF Len(s) = 0 THEN s
    ELSE IF Head(s) \in {Quote, Backslash}
         THEN <<Backslash, Head(s)>> \o Escape(Tail(s))
    ELSE <<Head(s)>> \o Escape(Tail(s))

\* json.Unmarshal([]byte(s), &v) with v an interface{}
Unmarshal(s) ==
    LET t == TrimSpace(s)
    IN IF t = <<"n", "u", "l", "l">> THEN [err |-> FALSE, val |-> NilValue]
       ELSE IF IsJSONNumber(t) THEN [err |-> FALSE, val |-> [t |-> "num", v |-> t]]
       ELSE IF IsJSONString(t)
            THEN [err |-> FALSE,
                  val |-> [t |-> "str", v |-> Unescape(SubSeq(t, 2, Len(t) - 1))]]
       ELSE [err |-> TRUE, val |-> NilValue]

\* json.Marshal(v)
Marshal(val) ==
    IF val.t = "nil" THEN <<"n", "u", "l", "l">>
    ELSE IF val.t = "num" THEN val.v
    ELSE <<Quote>> \o Escape(val.v) \o <<Quote>>

\* (mutant) a body that is not JSON is left out.
parseBodyRaw_JSONOnly(bodyRaw) ==
    IF bodyRaw = <<>> THEN NilValue
    ELSE IF ~Unmarshal(bodyRaw).err THEN Unmarshal(bodyRaw).val
    ELSE NilValue

\* parseBodyRaw: nil for "", the decoded value for JSON, else the Go string.
parseBodyRaw(bodyRaw) ==
    IF bodyRaw = <<>> THEN NilValue
    ELSE IF ~Unmarshal(bodyRaw).err THEN Unmarshal(bodyRaw).val
    ELSE [t |-> "str", v |-> bodyRaw]

\* marshalToJSONBString: nil stays nil (SQL NULL); json.Marshal of these
\* values does not fail.
marshalToJSONBString(parsed, rawString) ==
    IF parsed.t = "nil" THEN Nil ELSE Ptr(Marshal(parsed))

\* The text a JSONB column gives back for the JSON text put in it: the value
\* printed again (spaces around it are gone).
JSONBOut(text) == Marshal(Unmarshal(text).val)

\* ------------------------------------------------------------ rows
\* An event of the pipeline is <<c, i>> when its fields are left open and
\* <<c, i, logEntry>> when they are given.
HasFields(e) == Len(e) = 3

\* created_at DEFAULT CURRENT_TIMESTAMP: the time of the transaction, later
\* than that of every row stored before.
TxTime(st) ==
    IF Len(st) = 0 \/ ~HasFields(st[Len(st)]) THEN 1
    ELSE st[Len(st)][3].createdAt + 1

\* (mutant) the id column is among the columns of the INSERT and is given
\* what the caller supplied.
InsertRow_SuppliedId(st, id, e) ==
    IF ~HasFields(e) THEN e
    ELSE LET logEntry == e[3]
             bodyRawVal == IF logEntry.body.nil THEN Nil
                           ELSE marshalToJSONBString(parseBodyRaw(logEntry.body.v),
                                                     logEntry.body.v)
         IN <<e[1], e[2],
              [id |-> IF logEntry.id = 0 THEN id ELSE logEntry.id,
               severity |-> "NONE",
               count |-> logEntry.count,
               tokens |-> logEntry.tokens,
               user |-> logEntry.user,
               ep |-> logEntry.ep,
               action |-> logEntry.action,
               method |-> logEntry.method,
               status |-> logEntry.status,
               latency |-> logEntry.latency,
               body |-> IF bodyRawVal.nil THEN Nil ELSE Ptr(JSONBOut(bodyRawVal.v)),
               createdAt |-> TxTime(st)]>>

\* The arguments of stmt.Exec for one logEntry, and the row they make: id is
\* SERIAL and draws the next value of its sequence, severity is not among the
\* columns of the INSERT and takes the column's default, created_at likewise.
InsertRow(st, id, e) ==
    IF ~HasFields(e) THEN e
    ELSE LET logEntry == e[3]
             bodyRawVal == IF logEntry.body.nil THEN Nil
                           ELSE marshalToJSONBString(parseBodyRaw(logEntry.body.v),
                                                     logEntry.body.v)
         IN <<e[1], e[2],
              [id |-> id,
               severity |-> "NONE",
               count |-> logEntry.count,
               tokens |-> logEntry.tokens,
               user |-> logEntry.user,
               ep |-> logEntry.ep,
               action |-> logEntry.action,
               method |-> logEntry.method,
               status |-> logEntry.status,
               latency |-> logEntry.latency,
               body |-> IF bodyRawVal.nil THEN Nil ELSE Ptr(JSONBOut(bodyRawVal.v)),
               createdAt |-> TxTime(st)]>>

\* ------------------------------------------------------------ reports.go
\* Where a BatchInsertAuditLogs call fails: nowhere, at Begin, at Prepare, at
\* the Exec of row `row`, or at Commit.
FailPoints(logs) ==
    {[at |-> a, row |-> 0] : a \in {"none", "begin", "prepare", "commit"}}
        \cup {[at |-> "exec", row |-> i] : i \in 1..Len(logs)}

\* The entries whose stmt.Exec has succeeded when the call returns.
ExecRows(logs, f) ==
    IF f.at \in {"begin", "prepare"} THEN <<>>
    ELSE IF f.at = "exec" THEN SubSeq(logs, 1, f.row - 1)
    ELSE logs

\* The rows of those entries in the table.
ExecRowsIn(st, last, logs, f) ==
    [i \in 1..Len(ExecRows(logs, f)) |-> InsertRow(st, last + i, logs[i])]

\* How many values of the id sequence a call draws: one for each Exec that
\* succeeded and, may be, one for the Exec that failed; a rollback gives none
\* back. The id is among the fields an event <<c, i>> leaves open.
IdsDrawn(logs, f) ==
    IF Len(logs) = 0 \/ ~HasFields(logs[1]) \/ f.at \in {"begin", "prepare"} THEN {0}
    ELSE IF f.at = "exec" THEN {f.row - 1, f.row}
    ELSE {Len(logs)}

\* (mutant) no transaction: the rows executed before the failure stay.
BatchInsertAuditLogs_NoRollback(st, last, logs, f) ==
    IF Len(logs) = 0 THEN [store |-> st, err |-> FALSE]
    ELSE [store |-> st \o ExecRowsIn(st, last, logs, f), err |-> f.at # "none"]

\* last is the last value the id sequence gave before the call.
BatchInsertAuditLogs(st, last, logs, f) ==
    IF Len(logs) = 0 THEN [store |-> st, err |-> FALSE]
    ELSE IF f.at = "none"
         THEN [store |-> st \o ExecRowsIn(st, last, logs, f), err |-> FALSE]  \* Commit
         ELSE [store |-> st, err |-> TRUE]                        \* deferred Rollback

\* Buffer.flush: no storage call for an empty slice; an error is only logged.
flush(st, last, logs, f) ==
    IF Len(logs) = 0
    THEN [store |-> st, called |-> FALSE, err |-> FALSE]
    ELSE LET r == BatchInsertAuditLogs(st, last, logs, f)
         IN [store |-> r.store, called |-> TRUE, err |-> r.err]

\* ------------------------------------------------------------ pipeline
IdleCall == [pc |-> "idle", n |-> 0, pos |-> 1, addedCount |-> 0, free |-> 0,
             drainSeen |-> FALSE, otherEnq |-> FALSE, inFlush |-> FALSE]

NoCall == [c |-> 0, n |-> 0, addedCount |-> 0, free |-> 0,
           drainSeen |-> FALSE, otherEnq |-> FALSE, inFlush |-> FALSE]

\* No HTTP exchange yet; no normalizer call.
NoResp == [handler |-> "none", code |-> 0]
NoNorm == [pc |-> "none"]

\* Events submitted so far, over all calls.
Submitted == LET RECURSIVE Sum(_)
                 Sum(c) == IF c = 0 THEN 0 ELSE call[c].n + Sum(c - 1)
             IN Sum(MaxEvents)

Init ==
    /\ \E cm \in 1..MaxCap, cb \in 1..MaxThreshold :
          /\ maxSize = NewBuffer(cm, cb).maxSize
          /\ batchSize = NewBuffer(cm, cb).batchSize
    /\ logChan = <<>>
    /\ batch = <<>>
    /\ wpc = "select"
    /\ tickPending = FALSE
    /\ store = <<>>
    /\ seq = 0
    /\ call = [c \in Callers |-> IdleCall]
    /\ dropped = {}
    /\ drained = <<>>
    /\ flushed = <<>>
    /\ lost = {}
    /\ failures = 0
    /\ lastCall = NoCall
    /\ bufferInstance = 1
    /\ auditService = 1
    /\ nBuffers = 1
    /\ workers = {1}
    /\ getter = [g \in Goroutines |->
                   [pc |-> "done", fn |-> "service", b |-> 0, held |-> 1]]
    /\ resp = NoResp
    /\ norm = NoNorm

\* CreateAuditLogsHandler reaches as.Buffer.AddLogs(req.Logs) with n >= 1 valid
\* entries. Requests are numbered in the order their calls begin.
AddLogsCall(c, n) ==
    /\ call[c].pc = "idle"
    /\ Submitted + n <= MaxEvents
    /\ IF c = 1 THEN TRUE ELSE call[c - 1].pc # "idle"
    /\ call' = [call EXCEPT ![c] =
                  [pc |-> "loop", n |-> n, pos |-> 1, addedCount |-> 0,
                   free |-> maxSize - Len(logChan),
                   drainSeen |-> FALSE, otherEnq |-> FALSE,
                   inFlush |-> wpc \in Flushing]]
    /\ UNCHANGED <<maxSize, batchSize, logChan, batch, wpc, tickPending, store, seq,
                   dropped, drained, flushed, lost, failures, lastCall, getVars, httpVars>>

\* One iteration of the loop of AddLogs; the last one returns addedCount to the
\* handler, which answers 202 with it as queued_count. Of a returned call the
\* goroutine keeps the count; what happened during it goes to lastCall.
AddLogsSend(c) ==
    /\ call[c].pc = "loop"
    /\ call[c].pos <= call[c].n
    /\ SelectReady(logChan, maxSize)
    /\ LET e == <<c, call[c].pos>>
           r == AddLogsIter(logChan, maxSize, e, call[c].addedCount)
           last == call[c].pos = call[c].n
           after == [call[c] EXCEPT !.pos = @ + 1, !.addedCount = r.addedCount,
                                    !.pc = IF last THEN "done" ELSE "loop"]
       IN /\ logChan' = r.chan
          /\ dropped' = IF r.drop THEN dropped \cup {e} ELSE dropped
          /\ lastCall' = IF last
                          THEN [c |-> c, n |-> after.n, addedCount |-> after.addedCount,
                                free |-> after.free, drainSeen |-> after.drainSeen,
                                otherEnq |-> after.otherEnq,
                                inFlush |-> after.inFlush]
                          ELSE lastCall
          /\ call' = [d \in Callers |->
                IF d = c
                THEN IF last
                     THEN [after EXCEPT !.free = 0, !.drainSeen = FALSE,
                                        !.otherEnq = FALSE, !.inFlush = FALSE]
                     ELSE after
                ELSE IF call[d].pc = "loop" /\ ~r.drop
                     THEN [call[d] EXCEPT !.otherEnq = TRUE]
                     ELSE call[d]]
    /\ UNCHANGED <<maxSize, batchSize, batch, wpc, tickPending, store, seq,
                   drained, flushed, lost, failures, getVars, httpVars>>

WorkerRecv ==
    /\ wpc = "select"
    /\ Len(logChan) > 0
    /\ LET r == RecvCase(logChan, batch, batchSize)
       IN /\ logChan' = r.chan
          /\ batch' = r.batch
          /\ wpc' = r.pc
    /\ drained' = Append(drained, Head(logChan))
    /\ call' = [d \in Callers |->
                  IF call[d].pc = "loop"
                  THEN [call[d] EXCEPT !.drainSeen = TRUE]
                  ELSE call[d]]
    /\ UNCHANGED <<maxSize, batchSize, tickPending, store, seq, dropped, flushed,
                   lost, failures, lastCall, getVars, httpVars>>

\* The runtime's ticker: a tick is delivered unless one is still unread.
TimerFire ==
    /\ ~tickPending
    /\ tickPending' = TRUE
    /\ UNCHANGED <<maxSize, batchSize, logChan, batch, wpc, store, seq, call, dropped,
                   drained, flushed, lost, failures, lastCall, getVars, httpVars>>

WorkerTick ==
    /\ wpc = "select"
    /\ tickPending
    /\ tickPending' = FALSE
    /\ wpc' = TickCase(batch)
    /\ UNCHANGED <<maxSize, batchSize, logChan, batch, store, seq, call, dropped,
                   drained, flushed, lost, failures, lastCall, getVars, httpVars>>

\* b.flush(batch); batch = batch[:0]
WorkerFlush ==
    /\ wpc \in Flushing
    /\ \E f \in FailPoints(batch) :
          LET r == flush(store, seq, batch, f)
          IN /\ r.err => failures < MaxFailures
             /\ \E drawn \in IdsDrawn(batch, f) : seq' = seq + drawn
             /\ failures' = IF r.err THEN failures + 1 ELSE failures
             /\ store' = r.store
             /\ batch' = ResetBatch(batch, r.err)
             /\ flushed' = IF r.called THEN flushed \o batch ELSE flushed
             /\ lost' = IF r.called /\ r.err THEN lost \cup Range(batch) ELSE lost
    /\ wpc' = "select"
    /\ call' = [d \in Callers |->
                  IF call[d].pc = "loop"
                  THEN [call[d] EXCEPT !.inFlush = FALSE]
                  ELSE call[d]]
    /\ UNCHANGED <<maxSize, batchSize, logChan, tickPending, dropped,
                   drained, lastCall, getVars, httpVars>>

Next ==
    \/ \E c \in Callers, n \in 1..MaxEvents : AddLogsCall(c, n)
    \/ \E c \in Callers : AddLogsSend(c)
    \/ WorkerRecv
    \/ TimerFire
    \/ WorkerTick
    \/ WorkerFlush

Spec == Init /\ [][Next]_vars

\* The worker goroutine and the runtime's ticker keep running: a select with
\* a ready case is eventually taken, a flush eventually returns.
FairSpec ==
    /\ Spec
    /\ WF_vars(WorkerRecv)
    /\ WF_vars(TimerFire)
    /\ WF_vars(WorkerTick)
    /\ WF_vars(WorkerFlush)

\* ------------------------------------------------------------ singletons
\* service.Get and buffer.Get, called by goroutines that share the two package
\* variables without synchronization: every read and every write of
\* auditService and bufferInstance is a step of its own.
IdleGetter == [pc |-> "idle", fn |-> "none", b |-> 0, held |-> 0]

InitGet ==
    /\ maxSize = NewBuffer(0, 0).maxSize
    /\ batchSize = NewBuffer(0, 0).batchSize
    /\ logChan = <<>>
    /\ batch = <<>>
    /\ wpc = "select"
    /\ tickPending = FALSE
    /\ store = <<>>
    /\ seq = 0
    /\ call = [c \in Callers |-> IdleCall]
    /\ dropped = {}
    /\ drained = <<>>
    /\ flushed = <<>>
    /\ lost = {}
    /\ failures = 0
    /\ lastCall = NoCall
    /\ bufferInstance = 0
    /\ auditService = 0
    /\ nBuffers = 0
    /\ workers = {}
    /\ getter = [g \in Goroutines |-> IdleGetter]
    /\ resp = NoResp
    /\ norm = NoNorm

\* service.Get: if auditService == nil {...} else return auditService.
ServiceGet(g) ==
    /\ getter[g].pc \in {"idle", "done"}
    /\ getter' = [getter EXCEPT ![g] =
                    IF auditService = 0
                    THEN [pc |-> "bufferGet", fn |-> "service", b |-> 0, held |-> 0]
                    ELSE [pc |-> "done", fn |-> "service", b |-> 0,
                          held |-> auditService]]
    /\ UNCHANGED <<pipeVars, httpVars, bufferInstance, auditService, nBuffers, workers>>

\* buffer.Get, called by service.Get or directly: if bufferInstance == nil.
BufferGet(g) ==
    /\ getter[g].pc \in {"bufferGet", "idle", "done"}
    /\ LET fn == IF getter[g].pc = "bufferGet" THEN "service" ELSE "buffer"
       IN getter' = [getter EXCEPT ![g] =
                       [pc |-> IF bufferInstance = 0 THEN "newBuffer" ELSE "bufferRet",
                        fn |-> fn, b |-> 0, held |-> 0]]
    /\ UNCHANGED <<pipeVars, httpVars, bufferInstance, auditService, nBuffers, workers>>

\* NewBuffer(datastore): a new Buffer, and go b.startWorker().
NewBufferCall(g) ==
    /\ getter[g].pc = "newBuffer"
    /\ nBuffers' = nBuffers + 1
    /\ workers' = workers \cup {nBuffers + 1}
    /\ getter' = [getter EXCEPT ![g].pc = "assignBuffer", ![g].b = nBuffers + 1]
    /\ UNCHANGED <<pipeVars, httpVars, bufferInstance, auditService>>

\* bufferInstance = NewBuffer(datastore)
AssignBufferInstance(g) ==
    /\ getter[g].pc = "assignBuffer"
    /\ bufferInstance' = getter[g].b
    /\ getter' = [getter EXCEPT ![g].pc = "bufferRet"]
    /\ UNCHANGED <<pipeVars, httpVars, auditService, nBuffers, workers>>

\* return bufferInstance
BufferGetReturn(g) ==
    /\ getter[g].pc = "bufferRet"
    /\ getter' = [getter EXCEPT ![g] =
                    IF getter[g].fn = "buffer"
                    THEN [pc |-> "done", fn |-> "buffer", b |-> 0,
                          held |-> bufferInstance]
                    ELSE [pc |-> "assignService", fn |-> "service",
                          b |-> bufferInstance, held |-> 0]]
    /\ UNCHANGED <<pipeVars, httpVars, bufferInstance, auditService, nBuffers, workers>>

\* auditService = &AuditService{DB: datastore, Buffer: buffer.Get(datastore)}
AssignAuditService(g) ==
    /\ getter[g].pc = "assignService"
    /\ auditService' = getter[g].b
    /\ getter' = [getter EXCEPT ![g].pc = "serviceRet"]
    /\ UNCHANGED <<pipeVars, httpVars, bufferInstance, nBuffers, workers>>

\* return auditService
ServiceGetReturn(g) ==
    /\ getter[g].pc = "serviceRet"
    /\ getter' = [getter EXCEPT ![g] =
                    [pc |-> "done", fn |-> "service", b |-> 0, held |-> auditService]]
    /\ UNCHANGED <<pipeVars, httpVars, bufferInstance, auditService, nBuffers, workers>>

NextGet ==
    \/ \E g \in Goroutines : ServiceGet(g)
    \/ \E g \in Goroutines : BufferGet(g)
    \/ \E g \in Goroutines : NewBufferCall(g)
    \/ \E g \in Goroutines : AssignBufferInstance(g)
    \/ \E g \in Goroutines : BufferGetReturn(g)
    \/ \E g \in Goroutines : AssignAuditService(g)
    \/ \E g \in Goroutines : ServiceGetReturn(g)

SpecGet == InitGet /\ [][NextGet]_vars

\* ------------------------------------------------------------ normalizers
ByID == <<"-", "b", "y", "-", "i", "d">>

\* The number of digits the string ends with.
RECURSIVE DigitSuffix(_)
DigitSuffix(s) ==
    IF Len(s) > 0 /\ s[Len(s)] \in Digits
    THEN 1 + DigitSuffix(SubSeq(s, 1, Len(s) - 1))
    ELSE 0

\* numericEndingRegex, `/\d+$`: the index where its match starts, 0 when it
\* does not match. The match ends at the end of the text, so it is the "/"
\* right before the digits the string ends with.
numericEndingRegex(s) ==
    LET k == DigitSuffix(s)
    IN IF k > 0 /\ Len(s) > k /\ s[Len(s) - k] = "/" THEN Len(s) - k ELSE 0

\* purelyNumericRegex, `^\d+$`.
purelyNumericRegex(s) == Len(s) > 0 /\ DigitSuffix(s) = Len(s)

\* (mutant) the pattern lacks the "/": `\d+$`.
normalizeEndpoint_NoSlash(path) ==
    LET k == DigitSuffix(path)
    IN IF k = 0 THEN path ELSE SubSeq(path, 1, Len(path) - k) \o <<"/", "*">>

\* numericEndingRegex.ReplaceAllString(path, "/*")
normalizeEndpoint(path) ==
    LET m == numericEndingRegex(path)
    IN IF m = 0 THEN path ELSE SubSeq(path, 1, m - 1) \o <<"/", "*">>

\* strings.Trim(s, "/")
RECURSIVE Trim(_)
Trim(s) ==
    IF Len(s) = 0 THEN s
    ELSE IF Head(s) = "/" THEN Trim(Tail(s))
    ELSE IF s[Len(s)] = "/" THEN Trim(SubSeq(s, 1, Len(s) - 1))
    ELSE s

\* strings.Split(s, "/"): the text between the separators, empty texts too.
RECURSIVE Split(_)
Split(s) ==
    IF \A i \in 1..Len(s) : s[i] # "/" THEN <<s>>
    ELSE LET i == CHOOSE j \in 1..Len(s) :
                      s[j] = "/" /\ \A h \in 1..(j - 1) : s[h] # "/"
         IN <<SubSeq(s, 1, i - 1)>> \o Split(SubSeq(s, i + 1, Len(s)))

\* strings.TrimSuffix(s, "s")
TrimSuffix(s) ==
    IF Len(s) > 0 /\ s[Len(s)] = "s" THEN SubSeq(s, 1, Len(s) - 1) ELSE s

\* strings.TrimRight(s, "s"), which the code does not use
RECURSIVE TrimRight(_)
TrimRight(s) ==
    IF Len(s) > 0 /\ s[Len(s)] = "s" THEN TrimRight(SubSeq(s, 1, Len(s) - 1)) ELSE s

\* (mutant) every trailing s of the resource is removed.
normalizeAction_TrimsEveryS(action, endpointPath) ==
    IF action = <<>> \/ ~purelyNumericRegex(action) THEN action
    ELSE LET parts == Split(Trim(endpointPath))
         IN IF Len(parts) >= 3 THEN TrimRight(parts[3]) \o ByID ELSE action

normalizeAction(action, endpointPath) ==
    IF action = <<>> \/ ~purelyNumericRegex(action) THEN action
    ELSE LET parts == Split(Trim(endpointPath))
         IN IF Len(parts) >= 3 THEN TrimSuffix(parts[3]) \o ByID ELSE action

\* (mutant) the endpoint is normalized before the action is computed from it.
NormalizeEntry_EndpointFirst(e) ==
    LET ep == normalizeEndpoint(e.ep)
    IN [e EXCEPT !.ep = ep,
                 !.action = IF e.action.nil THEN e.action
                            ELSE Ptr(normalizeAction(e.action.v, ep))]

\* CreateAuditLogsHandler, "Normalize action and endpoint": the action from the
\* path as submitted, then the path.
NormalizeEntry(e) ==
    [e EXCEPT !.action = IF e.action.nil THEN e.action
                         ELSE Ptr(normalizeAction(e.action.v, e.ep)),
              !.ep = normalizeEndpoint(e.ep)]

\* ------------------------------------------------------------ normalizer calls
\* The segments paths are made of, and the paths: segments joined by "/" (an
\* empty first segment gives the leading "/", an empty last one a trailing "/").
Segs == {<<>>, <<"1">>, <<"1", "2">>, <<"a", "1">>, <<"a", "s">>, <<"s", "s">>,
         <<"*">>}

RECURSIVE Join(_)
Join(ss) ==
    IF Len(ss) = 1 THEN ss[1] ELSE ss[1] \o <<"/">> \o Join(Tail(ss))

Paths == {Join(ss) : ss \in UNION {[1..n -> Segs] : n \in 1..MaxSegs}}
Actions == {Nil, Ptr(<<>>), Ptr(<<"1">>), Ptr(<<"1", "2">>), Ptr(<<"a", "1">>)}

\* The service is up: routes.SetupRoutes has called service.Get once.
ServiceUp ==
    /\ bufferInstance = 1
    /\ auditService = 1
    /\ nBuffers = 1
    /\ workers = {1}
    /\ getter = [g \in Goroutines |->
                   [pc |-> "done", fn |-> "service", b |-> 0, held |-> 1]]

\* The pipeline of a Buffer just made with the capacity and the threshold given.
NewPipeline(b) ==
    /\ maxSize = b.maxSize
    /\ batchSize = b.batchSize
    /\ logChan = <<>>
    /\ batch = <<>>
    /\ wpc = "select"
    /\ tickPending = FALSE
    /\ store = <<>>
    /\ seq = 0
    /\ call = [c \in Callers |-> IdleCall]
    /\ dropped = {}
    /\ drained = <<>>
    /\ flushed = <<>>
    /\ lost = {}
    /\ failures = 0
    /\ lastCall = NoCall

InitNorm ==
    /\ NewPipeline(NewBuffer(0, 0))
    /\ ServiceUp
    /\ resp = NoResp
    /\ \E p \in Paths, a \in Actions :
          norm = [pc |-> "args", path |-> p, action |-> a]

\* normalizeEndpoint(path), and normalizeEndpoint of its result.
NormalizeEndpointCall ==
    /\ norm.pc = "args"
    /\ LET out == normalizeEndpoint(norm.path)
       IN norm' = [pc |-> "endpoint", path |-> norm.path, action |-> norm.action,
                   out |-> out, twice |-> normalizeEndpoint(out)]
    /\ UNCHANGED <<pipeVars, getVars, resp>>

\* The handler's normalization of one entry that passed the validation.
NormalizeEntryCall ==
    /\ norm.pc = "args"
    /\ norm.path # <<>>
    /\ LET r == NormalizeEntry([ep |-> norm.path, action |-> norm.action])
       IN norm' = [pc |-> "entry", path |-> norm.path, action |-> norm.action,
                   outPath |-> r.ep, outAction |-> r.action]
    /\ UNCHANGED <<pipeVars, getVars, resp>>

NextNorm ==
    \/ NormalizeEndpointCall
    \/ NormalizeEntryCall

SpecNorm == InitNorm /\ [][NextNorm]_vars

\* ------------------------------------------------------------ POST /api/audit-logs
\* json.Decoder.Decode into CreateAuditLogsRequest: a field the body leaves
\* out has Go's zero value, so a missing response_time_seconds is 0.
DecodeEntry(j) ==
    [ep |-> j.ep, method |-> j.method, status |-> j.status,
     latency |-> IF j.latency.present THEN j.latency.v ELSE 0,
     action |-> j.action, user |-> j.user, body |-> j.body,
     id |-> j.id, createdAt |-> j.createdAt, severity |-> j.severity,
     count |-> j.count, tokens |-> j.tokens]

\* CreateAuditLogsHandler, "Set default severity if empty".
DefaultSeverity(logEntry) ==
    [logEntry EXCEPT !.severity = IF @ = "" THEN "NONE" ELSE @]

\* The field the validation finds missing in an entry, "" when none.
MissingField(logEntry) ==
    IF logEntry.ep = <<>> THEN "endpoint_path"
    ELSE IF logEntry.method = "" THEN "http_method"
    ELSE IF logEntry.status = 0 THEN "status_code"
    ELSE ""

\* The first entry (from 1) the validation loop rejects, 0 when none.
FirstInvalid(logs) ==
    LET bad == {i \in 1..Len(logs) : MissingField(logs[i]) # ""}
    IN IF bad = {} THEN 0 ELSE CHOOSE i \in bad : \A j \in bad : i <= j

\* Buffer.AddLogs, the whole loop.
RECURSIVE AddLogs(_, _, _, _)
AddLogs(ch, cap, logs, addedCount) ==
    IF Len(logs) = 0 THEN [chan |-> ch, addedCount |-> addedCount, drops |-> {}]
    ELSE LET it == AddLogsIter(ch, cap, Head(logs), addedCount)
             rest == AddLogs(it.chan, cap, Tail(logs), it.addedCount)
         IN [chan |-> rest.chan, addedCount |-> rest.addedCount,
             drops |-> (IF it.drop THEN {Head(logs)} ELSE {}) \cup rest.drops]

Rejected(code, msg, index, ch) ==
    [code |-> code, msg |-> msg, index |-> index, chan |-> ch, queued |-> 0,
     drops |-> {}]

\* (mutant) each valid entry is queued as soon as it is validated.
CreateAuditLogsHandler_QueuesAsItGoes(req, ch, cap, r) ==
    IF ~req.decodes THEN Rejected(400, "Invalid request body", -1, ch)
    ELSE LET logs == [i \in 1..Len(req.logs) |-> DecodeEntry(req.logs[i])]
             bad == FirstInvalid(logs)
             n == IF bad = 0 THEN Len(logs) ELSE bad - 1
             a == AddLogs(ch, cap,
                          [i \in 1..n |-> <<r, i, NormalizeEntry(DefaultSeverity(logs[i]))>>], 0)
         IN IF Len(logs) = 0
            THEN Rejected(400, "Logs array cannot be empty", -1, ch)
            ELSE IF bad > 0
            THEN [code |-> 400, msg |-> MissingField(logs[bad]), index |-> bad - 1,
                  chan |-> a.chan, queued |-> 0, drops |-> a.drops]
            ELSE [code |-> 202, msg |-> "accepted", index |-> -1,
                  chan |-> a.chan, queued |-> a.addedCount, drops |-> a.drops]

\* (mutant) a body that does not decode is answered 500.
CreateAuditLogsHandler_Decode500(req, ch, cap, r) ==
    IF ~req.decodes THEN Rejected(500, "Invalid request body", -1, ch)
    ELSE LET logs == [i \in 1..Len(req.logs) |-> DecodeEntry(req.logs[i])]
             bad == FirstInvalid(logs)
             a == AddLogs(ch, cap,
                          [i \in 1..Len(logs) |-> <<r, i, NormalizeEntry(DefaultSeverity(logs[i]))>>], 0)
         IN IF Len(logs) = 0
            THEN Rejected(400, "Logs array cannot be empty", -1, ch)
            ELSE IF bad > 0
            THEN Rejected(400, MissingField(logs[bad]), bad - 1, ch)
            ELSE [code |-> 202, msg |-> "accepted", index |-> -1,
                  chan |-> a.chan, queued |-> a.addedCount, drops |-> a.drops]

\* CreateAuditLogsHandler: the status code, the message (for a missing field,
\* its name and the index of the entry), the channel afterwards and the
\* queued_count. r numbers the request's events.
CreateAuditLogsHandler(req, ch, cap, r) ==
    IF ~req.decodes THEN Rejected(400, "Invalid request body", -1, ch)
    ELSE LET logs == [i \in 1..Len(req.logs) |-> DecodeEntry(req.logs[i])]
             bad == FirstInvalid(logs)
             a == AddLogs(ch, cap,
                          [i \in 1..Len(logs) |-> <<r, i, NormalizeEntry(DefaultSeverity(logs[i]))>>], 0)
         IN IF Len(logs) = 0
            THEN Rejected(400, "Logs array cannot be empty", -1, ch)
            ELSE IF bad > 0
            THEN Rejected(400, MissingField(logs[bad]), bad - 1, ch)
            ELSE [code |-> 202, msg |-> "accepted", index |-> -1,
                  chan |-> a.chan, queued |-> a.addedCount, drops |-> a.drops]

\* ------------------------------------------------------------ GET /api/audit-logs
\* (mutant) a text that is not a number parses as 0.
Atoi_TextIsZero(p) ==
    IF p.kind \in {"int", "text"} THEN [err |-> FALSE, v |-> p.v]
    ELSE [err |-> TRUE, v |-> 0]

\* strconv.Atoi of the limit parameter: an error for a text that is not a
\* decimal number and for a number out of the range of int.
Atoi(p) ==
    IF p.kind = "int" THEN [err |-> FALSE, v |-> p.v] ELSE [err |-> TRUE, v |-> 0]

\* (mutant) a limit of zero or less is passed on as it is.
HandlerLimit_NoFallback(p) == IF p > MaxLimit THEN MaxLimit ELSE p

\* GetAuditLogsHandler: the limit it passes on for a parsed limit parameter.
HandlerLimit(p) ==
    IF p > 0 /\ p <= MaxLimit THEN p
    ELSE IF p > MaxLimit THEN MaxLimit
    ELSE MaxLimit

\* GetAuditLogs, "Validate and set limit".
StoreLimit(limit) ==
    LET l == IF limit <= 0 THEN MaxLimit ELSE limit
    IN IF l > MaxLimit THEN MaxLimit ELSE l

\* A Go slice: nil as declared by var, not nil once appended to.
NilSlice == [nil |-> TRUE, elems |-> <<>>]
\* The slice after the elements are appended, one by one, to a nil slice.
SliceOf(elems) == [nil |-> Len(elems) = 0, elems |-> elems]

\* json.NewEncoder(w).Encode of a slice: null for a nil slice, else an array.
Encode(slice) ==
    IF slice.nil THEN [json |-> "null", elems |-> <<>>]
    ELSE [json |-> "array", elems |-> slice.elems]

\* ------------------------------------------------------------ queries
\* A value passed with a query: a parameter of the request ("" is absent), a
\* number parsed from one (v), a string (s), an HTTP method (w), a text that
\* is no number, a time (v).
Absent == [kind |-> "absent", v |-> 0, s |-> <<>>, w |-> ""]
IntParam(n) == [kind |-> "int", v |-> n, s |-> <<>>, w |-> ""]
StrParam(str) == [kind |-> "str", v |-> 0, s |-> str, w |-> ""]
WordParam(word) == [kind |-> "word", v |-> 0, s |-> <<>>, w |-> word]
TextParam == [kind |-> "text", v |-> 0, s |-> <<>>, w |-> ""]

\* A composed query: the predicates of its WHERE clause, each with the
\* number of its placeholder (0: none), the arguments passed with it,
\* argIndex, and the placeholder of its LIMIT (0: none, or a literal).
Fixed(col, op) == [col |-> col, op |-> op, ph |-> 0]
TimeArg(t) == [kind |-> "time", v |-> t, s |-> <<>>, w |-> ""]
NoQuery == [where |-> <<>>, args |-> <<>>, argIndex |-> 1, limitPh |-> 0]

\* (mutant) argIndex is not advanced.
AddFilter_SameIndex(query, present, col, op, arg) ==
    IF present
    THEN [query EXCEPT !.where = Append(@, [col |-> col, op |-> op,
                                            ph |-> query.argIndex]),
                       !.args = Append(@, arg)]
    ELSE query

\* (mutant) a filter that is absent is matched against its empty value.
AddFilter_Always(query, present, col, op, arg) ==
    [query EXCEPT !.where = Append(@, [col |-> col, op |-> op,
                                       ph |-> query.argIndex]),
                  !.args = Append(@, arg),
                  !.argIndex = @ + 1]

\* if v := ...; v != "" { query += " AND col op $" + strconv.Itoa(argIndex);
\* args = append(args, v); argIndex++ }
AddFilter(query, present, col, op, arg) ==
    IF present
    THEN [query EXCEPT !.where = Append(@, [col |-> col, op |-> op,
                                            ph |-> query.argIndex]),
                       !.args = Append(@, arg),
                       !.argIndex = @ + 1]
    ELSE query

\* GetAuditLogs, "Build query with optional filters": WHERE 1=1, a predicate
\* for each filter that is neither nil nor "", and LIMIT $argPos.
GetAuditLogsQuery(userID, action, limit) ==
    LET byUser == AddFilter(NoQuery, ~userID.nil /\ userID.v # <<>>,
                            "user_id", "=", StrParam(userID.v))
        byAction == AddFilter(byUser, ~action.nil /\ action.v # <<>>,
                              "action", "=", StrParam(action.v))
    IN [byAction EXCEPT !.limitPh = byAction.argIndex,
                        !.args = Append(@, IntParam(limit))]

\* The WHERE clause of GetAuditLogs: a filter that is nil or "" is left out.
Matches(row, userID, action) ==
    /\ (userID.nil \/ userID.v = <<>>) \/ (~row.user.nil /\ row.user.v = userID.v)
    /\ (action.nil \/ action.v = <<>>) \/ (~row.action.nil /\ row.action.v = action.v)

\* The answers the table may give to ORDER BY created_at DESC: the matching
\* rows, newest first, rows of one transaction in any order.
RECURSIVE Orderings(_, _)
Orderings(st, idx) ==
    IF idx = {} THEN {<<>>}
    ELSE LET newest == {i \in idx : \A j \in idx :
                            st[i][3].createdAt >= st[j][3].createdAt}
         IN UNION {{<<i>> \o o : o \in Orderings(st, idx \ {i})} : i \in newest}

\* rows.Scan and the conversions of the nullable columns.
ScanRow(row) ==
    [id |-> row.id, ep |-> row.ep, method |-> row.method, status |-> row.status,
     latency |-> row.latency, action |-> row.action, user |-> row.user,
     body |-> row.body, createdAt |-> row.createdAt]

\* Where a read of n rows fails: nowhere, at Query, at the Scan of row `row`,
\* or in the iteration after `row` rows (what rows.Err() reports).
ReadFailPoints(n) ==
    {[at |-> a, row |-> 0] : a \in {"none", "query"}}
        \cup {[at |-> "scan", row |-> i] : i \in 1..n}
        \cup {[at |-> "rows", row |-> i] : i \in 0..n}

\* The body of an http.Error answer: plain text, no JSON.
ErrorBody == [json |-> "none", elems |-> <<>>]

\* AuditLogDB.GetAuditLogs; ord is the order the table answers in.
GetAuditLogs(st, userID, action, limit, f, ord) ==
    LET n == Min(StoreLimit(limit), Len(ord))
        rows == [k \in 1..n |-> ScanRow(st[ord[k]][3])]
        query == GetAuditLogsQuery(userID, action, StoreLimit(limit))
    IN IF f.at # "none"
       THEN [err |-> TRUE, logs |-> NilSlice, queries |-> 1,
             limit |-> StoreLimit(limit), query |-> query]
       ELSE [err |-> FALSE, logs |-> SliceOf(rows), queries |-> 1,
             limit |-> StoreLimit(limit), query |-> query]

\* The indexes of the rows of st that match.
Matching(st, userID, action) ==
    {i \in 1..Len(st) : Matches(st[i][3], userID, action)}

\* GetAuditLogsHandler: q holds the query parameters ("" is absent).
GetAuditLogsHandler(q, st, f, ord) ==
    LET userID == IF q.user = <<>> THEN Nil ELSE Ptr(q.user)
        action == IF q.action = <<>> THEN Nil ELSE Ptr(q.action)
        parsed == Atoi(q.limit)
        limit == IF q.limit.kind = "absent" THEN MaxLimit ELSE HandlerLimit(parsed.v)
        r == GetAuditLogs(st, userID, action, limit, f, ord)
    IN IF q.limit.kind # "absent" /\ parsed.err
       THEN [code |-> 400, body |-> ErrorBody, queries |-> 0, limit |-> 0,
             passed |-> 0, query |-> NoQuery]
       ELSE IF r.err
       THEN [code |-> 500, body |-> ErrorBody, queries |-> r.queries,
             limit |-> r.limit, passed |-> limit,
             query |-> r.query]
       ELSE [code |-> 200, body |-> Encode(r.logs), queries |-> r.queries,
             limit |-> r.limit, passed |-> limit,
             query |-> r.query]

\* The number of rows the table answers GetAuditLogs with.
AnswerSize(st, q, ord) ==
    Min(Len(ord),
        StoreLimit(IF q.limit.kind = "int" THEN HandlerLimit(q.limit.v) ELSE MaxLimit))

\* ------------------------------------------------------------ float64
\* A positive float64 is [m, e]: m the 53 bits of its significand, the
\* first bit first, and e the exponent of the last bit; its value is
\* m * 2^e. Numbers of any length of this form are the exact results
\* before rounding.
Precision == 53
FloatZero == [m |-> <<>>, e |-> 0]

Zeros(n) == [i \in 1..n |-> 0]

\* The bits without their leading zeros.
Strip(bits) ==
    LET ones == {i \in 1..Len(bits) : bits[i] = 1}
    IN IF ones = {} THEN <<>>
       ELSE SubSeq(bits, CHOOSE i \in ones : \A j \in ones : i <= j, Len(bits))

\* The bits at a length of n, zeros put in front.
PadTo(bits, n) == Zeros(n - Len(bits)) \o bits

\* The sum of two numbers in bits: a carry leaves place i when some place
\* from i on makes one and every place between passes it on.
Carry(a, b, i) ==
    \E j \in i..Len(a) :
        /\ a[j] + b[j] = 2
        /\ \A k \in i..(j - 1) : a[k] + b[k] = 1
SumOfEqualLength(a, b) ==
    [i \in 1..(Len(a) + 1) |->
        LET carryIn == IF i <= Len(a) /\ Carry(a, b, i) THEN 1 ELSE 0
        IN IF i = 1 THEN carryIn ELSE (a[i - 1] + b[i - 1] + carryIn) % 2]
AddBits(a, b) ==
    LET n == IF Len(a) > Len(b) THEN Len(a) ELSE Len(b)
    IN SumOfEqualLength(PadTo(a, n), PadTo(b, n))

\* Rounding to nearest, ties to even, of the exact number bits * 2^e.
RoundFloat(bits, e) ==
    LET s == Strip(bits)
        extra == Len(s) - Precision
    IN IF extra <= 0 THEN [m |-> s \o Zeros(-extra), e |-> e + extra]
       ELSE LET kept == SubSeq(s, 1, Precision)
                rest == SubSeq(s, Precision + 1, Len(s))
                sticky == \E i \in 2..Len(rest) : rest[i] = 1
                up == rest[1] = 1 /\ (sticky \/ kept[Precision] = 1)
                m == IF up THEN Strip(AddBits(kept, <<1>>)) ELSE kept
            IN IF Len(m) > Precision
               THEN [m |-> SubSeq(m, 1, Precision), e |-> e + extra + 1]
               ELSE [m |-> m, e |-> e + extra]

\* 2^k modulo d, by squaring.
RECURSIVE Pow2Mod(_, _)
Pow2Mod(k, d) ==
    IF k = 0 THEN 1 % d
    ELSE LET h == Pow2Mod(k \div 2, d)
         IN (h * h * (IF k % 2 = 1 THEN 2 ELSE 1)) % d

\* Long division of n by d, d <= n < 2d: the bit of the quotient at place k
\* after the point, and what is left after it.
Remainder(n, d, k) == ((n - d) * Pow2Mod(k, d)) % d
QuotientBit(n, d, k) == IF 2 * Remainder(n, d, k - 1) >= d THEN 1 ELSE 0

\* The least s with a * 2^s >= b.
RECURSIVE ShiftUp(_, _)
ShiftUp(a, b) == IF a >= b THEN 0 ELSE 1 + ShiftUp(2 * a, b)
RECURSIVE Pow2(_)
Pow2(n) == IF n = 0 THEN 1 ELSE 2 * Pow2(n - 1)

\* float64(a) / float64(b) for integers 0 < a <= b that are floats exactly:
\* the quotient to one bit more than a float has and one bit that says
\* whether anything is left, rounded.
FloatDiv(a, b) ==
    LET s == ShiftUp(a, b)
        n == a * Pow2(s)
        sticky == IF Remainder(n, b, Precision) > 0 THEN 1 ELSE 0
    IN RoundFloat(<<1>> \o [k \in 1..Precision |-> QuotientBit(n, b, k)]
                        \o <<sticky>>,
                  0 - s - Precision - 1)

\* x * 100: the exact product, 64 x + 32 x + 4 x, rounded.
FloatTimes100(x) ==
    RoundFloat(AddBits(AddBits(x.m \o Zeros(6), x.m \o Zeros(5)), x.m \o Zeros(2)),
               x.e)

\* float64(count) / float64(totalCount) * 100, for the counts a table of this
\* model can give, worked out once.
Percentages ==
    [totalCount \in 1..MaxEvents |->
        [count \in 1..totalCount |-> FloatTimes100(FloatDiv(count, totalCount))]]
Percentage(count, totalCount) == Percentages[totalCount][count]

\* ------------------------------------------------------------ reports
KnownReports ==
    {"audit-frequently-used-actions", "audit-issues-synced-trend",
     "audit-token-usage", "audit-slow-actions", "audit-failed-endpoints",
     "audit-user-questions", "audit-most-active-users",
     "audit-daily-active-users"}

\* The reports whose rows carry a percentage.
PercentageReports ==
    {"audit-frequently-used-actions", "audit-failed-endpoints",
     "audit-most-active-users"}

\* The reports whose query ends in LIMIT 400.
LimitedReports ==
    {"audit-frequently-used-actions", "audit-slow-actions",
     "audit-failed-endpoints", "audit-user-questions",
     "audit-most-active-users"}
ReportLimit == 400

\* Time is counted in the instants of TxTime; a month is longer than all the
\* transactions of this model take, and the months begin at 1, Month + 1, ...
Month == MaxEvents + 1
MonthStart(t) == ((t - 1) \div Month) * Month + 1

\* The query parameters GetReport reads into filters.
FilterKeys ==
    {"months", "month", "user_id", "http_method", "action", "min_tokens",
     "min_response_time", "status_code", "status_code_min", "status_code_max",
     "search_query"}
NoFilters == [key \in FilterKeys |-> Absent]

\* getString: the default for a key that is missing or "".
getString(filters, key, defaultValue) ==
    IF key \notin DOMAIN filters \/ filters[key].kind = "absent"
    THEN defaultValue
    ELSE filters[key]

\* strconv.ParseFloat of a parameter.
ParseFloat(p) ==
    IF p.kind = "int" THEN [err |-> FALSE, v |-> p.v] ELSE [err |-> TRUE, v |-> 0]

\* calculateDateRange: date_from, for the months parameter and the clock.
calculateDateRange(monthsStr, now) ==
    LET parsed == Atoi(monthsStr)
        months == IF parsed.err \/ parsed.v <= 0 THEN 1 ELSE parsed.v
    IN now - months * Month

\* WHERE created_at >= $1, the predicates written into the query text, and
\* args := []interface{}{dateFrom}; argIndex := 2
DateQuery(dateFrom, fixed) ==
    [where |-> <<[col |-> "created_at", op |-> ">=", ph |-> 1]>> \o fixed,
     args |-> <<TimeArg(dateFrom)>>,
     argIndex |-> 2,
     limitPh |-> 0]

\* A string filter: present when not "".
AddString(query, filters, key, col) ==
    LET p == getString(filters, key, Absent)
    IN AddFilter(query, p.kind # "absent", col, "=", p)

\* A numeric filter: present when not "" and a number.
AddNumber(query, filters, key, col, op) ==
    LET p == getString(filters, key, Absent)
        parsed == IF key = "min_response_time" THEN ParseFloat(p) ELSE Atoi(p)
    IN AddFilter(query, p.kind # "absent" /\ ~parsed.err, col, op,
                 IntParam(parsed.v))

DateFromOf(filters, now) ==
    calculateDateRange(getString(filters, "months", IntParam(1)), now)

getFrequentlyUsedActions(filters, now) ==
    AddString(AddString(DateQuery(DateFromOf(filters, now), <<>>),
                        filters, "user_id", "user_id"),
              filters, "http_method", "http_method")

getIssuesSyncedTrend(filters, now) ==
    AddString(DateQuery(DateFromOf(filters, now),
                        <<Fixed("count", "IS NOT NULL")>>),
              filters, "action", "action")

getTokenUsage(filters, now) ==
    AddNumber(AddString(DateQuery(DateFromOf(filters, now),
                                  <<Fixed("tokens_used", "IS NOT NULL")>>),
                        filters, "action", "action"),
              filters, "min_tokens", "tokens_used", ">=")

getSlowActions(filters, now) ==
    AddNumber(AddNumber(DateQuery(DateFromOf(filters, now), <<>>),
                        filters, "min_response_time", "response_time_seconds", ">="),
              filters, "status_code", "status_code", "=")

getFailedEndpoints(filters, now) ==
    AddString(DateQuery(DateFromOf(filters, now),
                        <<Fixed("status_code", ">= 400")>>),
              filters, "http_method", "http_method")

getUserQuestions(filters, now) ==
    LET searchQuery == getString(filters, "search_query", Absent)
    IN AddFilter(AddString(DateQuery(DateFromOf(filters, now),
                                     <<Fixed("question", "IS NOT NULL"),
                                       Fixed("question", "!= ''")>>),
                           filters, "user_id", "user_id"),
                 searchQuery.kind # "absent", "question", "ILIKE",
                 IF searchQuery.kind = "absent" THEN Absent
                 ELSE StrParam(<<"%">> \o searchQuery.s \o <<"%">>))

getMostActiveUsers(filters, now) ==
    DateQuery(DateFromOf(filters, now), <<Fixed("user_id", "IS NOT NULL")>>)

\* The month parameter is a month ("2006-01") or does not parse; the month
\* is the current one when it is absent or does not parse.
getDailyActiveUsers(filters, now) ==
    LET month == getString(filters, "month", Absent)
        monthStart == IF month.kind = "int" THEN month.v * Month + 1
                      ELSE MonthStart(now)
        monthEnd == monthStart + Month
    IN [where |-> <<[col |-> "created_at", op |-> ">=", ph |-> 1],
                    [col |-> "created_at", op |-> "<", ph |-> 2],
                    Fixed("user_id", "IS NOT NULL")>>,
        args |-> <<TimeArg(monthStart), TimeArg(monthEnd)>>,
        argIndex |-> 3,
        limitPh |-> 0]

\* The query a report composes.
ReportQuery(reportID, filters, now) ==
    CASE reportID = "audit-frequently-used-actions" -> getFrequentlyUsedActions(filters, now)
      [] reportID = "audit-issues-synced-trend" -> getIssuesSyncedTrend(filters, now)
      [] reportID = "audit-token-usage" -> getTokenUsage(filters, now)
      [] reportID = "audit-slow-actions" -> getSlowActions(filters, now)
      [] reportID = "audit-failed-endpoints" -> getFailedEndpoints(filters, now)
      [] reportID = "audit-user-questions" -> getUserQuestions(filters, now)
      [] reportID = "audit-most-active-users" -> getMostActiveUsers(filters, now)
      [] reportID = "audit-daily-active-users" -> getDailyActiveUsers(filters, now)
      [] OTHER -> NoQuery

\* Whether a row satisfies a predicate of a query, as the table decides it:
\* a comparison with NULL is not true. No body of this model is a JSON
\* object, so body_raw->>'question' is NULL.
Holds(pred, args, row) ==
    LET arg == IF pred.ph = 0 THEN Absent ELSE args[pred.ph]
    IN CASE pred.col = "created_at" /\ pred.op = ">=" -> row.createdAt >= arg.v
         [] pred.col = "created_at" /\ pred.op = "<" -> row.createdAt < arg.v
         [] pred.col = "user_id" /\ pred.op = "IS NOT NULL" -> ~row.user.nil
         [] pred.col = "user_id" /\ pred.op = "=" ->
                ~row.user.nil /\ row.user.v = arg.s
         [] pred.col = "action" -> ~row.action.nil /\ row.action.v = arg.s
         [] pred.col = "http_method" -> row.method = arg.w
         [] pred.col = "count" -> ~row.count.nil
         [] pred.col = "tokens_used" /\ pred.op = "IS NOT NULL" -> ~row.tokens.nil
         [] pred.col = "tokens_used" /\ pred.op = ">=" ->
                ~row.tokens.nil /\ row.tokens.v >= arg.v
         [] pred.col = "response_time_seconds" -> row.latency >= arg.v
         [] pred.col = "status_code" /\ pred.op = ">= 400" -> row.status >= 400
         [] pred.col = "status_code" /\ pred.op = "=" -> row.status = arg.v
         [] pred.col = "question" -> FALSE
         [] OTHER -> FALSE

\* The rows a query aggregates.
QueryRows(query, st) ==
    {i \in 1..Len(st) :
        \A k \in 1..Len(query.where) : Holds(query.where[k], query.args, st[i][3])}

\* COALESCE(action, endpoint_path)
ActionOrEndpoint(row) == IF row.action.nil THEN row.ep ELSE row.action.v

\* The GROUP BY key of a report; user questions are not grouped.
ReportKey(reportID, row) ==
    IF reportID = "audit-frequently-used-actions" THEN <<ActionOrEndpoint(row), row.ep>>
    ELSE IF reportID = "audit-token-usage" THEN <<ActionOrEndpoint(row)>>
    ELSE IF reportID = "audit-slow-actions"
         THEN <<row.ep, IF row.action.nil THEN <<>> ELSE row.action.v>>
    ELSE IF reportID = "audit-failed-endpoints"
         THEN <<ActionOrEndpoint(row), row.ep, row.status>>
    ELSE IF reportID = "audit-most-active-users" THEN <<row.user.v>>
    ELSE IF reportID = "audit-user-questions" THEN <<row.id>>
    ELSE <<row.createdAt>>

\* The groups of a report over the rows in: for each key, how many rows and
\* their latencies.
ReportGroups(reportID, st, in) ==
    LET keys == {ReportKey(reportID, st[i][3]) : i \in in}
        Of(k) == {i \in in : ReportKey(reportID, st[i][3]) = k}
    IN {[key |-> k, count |-> Cardinality(Of(k)),
         slow |-> Cardinality({i \in Of(k) : st[i][3].latency > 0}),
         users |-> Cardinality({st[i][3].user : i \in Of(k)})] : k \in keys}

\* ORDER BY: g may come before h. By count, by average latency (latencies
\* are 0 or 1 here), or by day.
MayPrecede(reportID, g, h) ==
    IF reportID = "audit-slow-actions"
    THEN g.slow * h.count >= h.slow * g.count
    ELSE IF reportID \in {"audit-issues-synced-trend", "audit-daily-active-users"}
    THEN g.key[1] <= h.key[1]
    ELSE IF reportID = "audit-user-questions" THEN TRUE
    ELSE g.count >= h.count

\* The orders in which the table may answer the report's query.
RECURSIVE ReportOrderings(_, _)
ReportOrderings(reportID, groups) ==
    IF groups = {} THEN {<<>>}
    ELSE LET first == {g \in groups : \A h \in groups : MayPrecede(reportID, g, h)}
         IN UNION {{<<g>> \o o : o \in ReportOrderings(reportID, groups \ {g})}
                      : g \in first}

\* totalCount += count, row by row
RECURSIVE SumCounts(_, _)
SumCounts(ord, n) == IF n = 0 THEN 0 ELSE ord[n].count + SumCounts(ord, n - 1)

\* How many rows the data function gets: those the LIMIT leaves, or those
\* before the iteration breaks off.
RowsRead(reportID, f, ord) ==
    LET given == IF reportID \in LimitedReports THEN Min(Len(ord), ReportLimit)
                 ELSE Len(ord)
    IN IF f.at = "rows" THEN Min(f.row, given) ELSE given

\* The records of a result; "Calculate percentages" where the report has one.
ResultRows(reportID, ord, n, totalCount) ==
    [k \in 1..n |->
        [key |-> ord[k].key, count |-> ord[k].count, users |-> ord[k].users,
         percentage |-> IF reportID \in PercentageReports /\ totalCount > 0
                        THEN Percentage(ord[k].count, totalCount)
                        ELSE FloatZero]]

\* (mutant) the percentage is of all the rows the query matches.
ReportData_OfAllRows(reportID, f, ord) ==
    IF f.at \in {"query", "scan"}
    THEN [err |-> TRUE, results |-> NilSlice]
    ELSE [err |-> FALSE,
          results |-> SliceOf(ResultRows(reportID, ord, RowsRead(reportID, f, ord),
                                         SumCounts(ord, Len(ord))))]

\* A data function of ReportService (getMostActiveUsers and the others):
\* Query, then Scan and append row by row; rows.Err() is not looked at, so
\* an iteration that breaks off after some rows gives those rows, no error.
ReportData(reportID, f, ord) ==
    IF f.at \in {"query", "scan"}
    THEN [err |-> TRUE, results |-> NilSlice]
    ELSE [err |-> FALSE,
          results |-> SliceOf(ResultRows(reportID, ord, RowsRead(reportID, f, ord),
                                         SumCounts(ord, RowsRead(reportID, f, ord))))]

\* (mutant) an unknown report_id is a failure like any other.
GetReport_UnknownIs500(reportID, f, ord) ==
    LET r == ReportData(reportID, f, ord)
    IN IF reportID \notin KnownReports \/ r.err
       THEN [code |-> 500, body |-> ErrorBody, queries |-> 1]
       ELSE [code |-> 200, body |-> Encode(r.results), queries |-> 1]

\* ReportService.GetReport
GetReport(reportID, f, ord) ==
    IF reportID \notin KnownReports
    THEN [code |-> 404, body |-> ErrorBody, queries |-> 0]
    ELSE LET r == ReportData(reportID, f, ord)
         IN IF r.err
            THEN [code |-> 500, body |-> ErrorBody, queries |-> 1]
            ELSE [code |-> 200, body |-> Encode(r.results), queries |-> 1]

\* ------------------------------------------------------------ the service
\* The events that entered AddLogs so far, and the number of the next request.
EventsSoFar == dropped \cup Range(logChan) \cup Range(drained)
NextRequest == 1 + Cardinality({e[1] : e \in EventsSoFar})

\* What the requests of this model are made of.
SamplePath == <<"/", "a", "/", "7">>
SampleUser == <<"u">>
Entry(ep, method, status, present, action, user, body) ==
    [ep |-> ep, method |-> method, status |-> status,
     latency |-> [present |-> present, v |-> 1],
     action |-> action, user |-> user, body |-> body,
     id |-> 0, createdAt |-> 0, severity |-> "", count |-> Nil, tokens |-> Nil]
ValidEntry(action, user, body) ==
    Entry(SamplePath, "GET", 200, TRUE, action, user, body)
\* Entries with required fields given or not: all given, one missing, the
\* first two missing, the latency missing.
RequiredFieldEntries ==
    {Entry(SamplePath, "GET", 200, TRUE, Nil, Nil, Nil),
     Entry(<<>>, "GET", 200, TRUE, Nil, Nil, Nil),
     Entry(SamplePath, "", 200, TRUE, Nil, Nil, Nil),
     Entry(SamplePath, "GET", 0, TRUE, Nil, Nil, Nil),
     Entry(<<>>, "", 200, TRUE, Nil, Nil, Nil),
     Entry(SamplePath, "GET", 200, FALSE, Nil, Nil, Nil)}
Undecodable == [decodes |-> FALSE, logs |-> <<>>]
\* Bodies that do not decode, and bodies with no, one or two entries.
RequestsOf(entries) ==
    {[decodes |-> TRUE, logs |-> l] : l \in UNION {[1..k -> entries] : k \in {0, 1, 2}}}
        \cup {Undecodable}

\* A request that is rejected and a read change nothing but resp: what can
\* follow them can follow the state before them, and no behaviour is followed
\* beyond them.
Open == resp.code \in {0, 202}

\* POST /api/audit-logs, from the decoding of the body to the answer. AddLogs
\* runs here in one step; its steps among the worker's are those of Spec.
PostAuditLogs(req) ==
    LET h == CreateAuditLogsHandler(req, logChan, maxSize, NextRequest)
    IN /\ Open
       /\ h.code = 202 => Cardinality(EventsSoFar) + Len(req.logs) <= MaxEvents
       /\ logChan' = h.chan
       /\ dropped' = dropped \cup h.drops
       /\ resp' = [handler |-> "create", req |-> req, code |-> h.code,
                   msg |-> h.msg, index |-> h.index, queued |-> h.queued,
                   r |-> IF h.code = 202 THEN NextRequest ELSE 0]
       /\ UNCHANGED <<maxSize, batchSize, batch, wpc, tickPending, store, seq, call,
                      drained, flushed, lost, failures, lastCall, getVars, norm>>

\* The worker, each event flushed as soon as it is received (a threshold of
\* 1: the ticker finds the batch empty).
InitIngest ==
    /\ \E cm \in 1..MaxCap : NewPipeline(NewBuffer(cm, 1))
    /\ ServiceUp
    /\ resp = NoResp
    /\ norm = NoNorm

NextIngest ==
    \/ \E req \in RequestsOf(RequiredFieldEntries) : PostAuditLogs(req)
    \/ Open /\ WorkerRecv
    \/ Open /\ WorkerFlush

SpecIngest == InitIngest /\ [][NextIngest]_vars

\* ------------------------------------------------------------ reads
\* The entries the table is filled with: no user, a user, a user and an action.
StoredEntries ==
    {ValidEntry(Nil, Nil, Nil), ValidEntry(Nil, Ptr(SampleUser), Nil),
     ValidEntry(Ptr(<<"7">>), Ptr(SampleUser), Nil)}

\* The batches a request of entries makes when the table is st.
BatchesOf(entries, st) ==
    {[i \in 1..Len(req.logs) |->
         <<TxTime(st), i, NormalizeEntry(DefaultSeverity(DecodeEntry(req.logs[i])))>>] :
        req \in {q \in RequestsOf(entries) :
                   /\ q.decodes
                   /\ Len(q.logs) > 0
                   /\ Len(st) + Len(q.logs) <= MaxEvents}}
BatchesFor(st) == BatchesOf(StoredEntries, st)

\* What the pipeline has done after k requests at most, each accepted whole,
\* received and flushed as one batch without failure: the events and the table.
RECURSIVE FlushedOf(_, _)
FlushedOf(entries, k) ==
    IF k = 0 THEN {[events |-> <<>>, store |-> <<>>]}
    ELSE LET before == FlushedOf(entries, k - 1)
         IN before \cup
            UNION {{[events |-> h.events \o logs,
                     store |-> BatchInsertAuditLogs(h.store, Len(h.store), logs,
                                   [at |-> "none", row |-> 0]).store] :
                       logs \in BatchesOf(entries, h.store)} : h \in before}
Flushed(k) == FlushedOf(StoredEntries, k)

\* The service with the table of h, its queue and its batch empty.
TableIs(h) ==
    /\ store = h.store
    /\ seq = Len(h.store)
    /\ drained = h.events
    /\ flushed = h.events
    /\ maxSize = NewBuffer(0, 0).maxSize
    /\ batchSize = NewBuffer(0, 0).batchSize
    /\ logChan = <<>>
    /\ batch = <<>>
    /\ wpc = "select"
    /\ tickPending = FALSE
    /\ call = [c \in Callers |-> IdleCall]
    /\ dropped = {}
    /\ lost = {}
    /\ failures = 0
    /\ lastCall = NoCall
    /\ ServiceUp
    /\ resp = NoResp
    /\ norm = NoNorm

InitRead == \E h \in Flushed(MaxEvents) : TableIs(h)

LimitParams ==
    {[kind |-> k, v |-> 0] : k \in {"absent", "text", "range"}}
        \cup {[kind |-> "int", v |-> v] :
                 v \in (-1..(MaxEvents + 1)) \cup ((MaxLimit - 1)..(MaxLimit + 1))}
Queries ==
    {[user |-> u, action |-> a, limit |-> l] :
        u \in {<<>>, SampleUser, <<"v">>}, a \in {<<>>, <<"7">>}, l \in LimitParams}

\* The filters of q as GetAuditLogsHandler passes them.
FilterOf(param) == IF param = <<>> THEN Nil ELSE Ptr(param)

\* GET /api/audit-logs
GetAuditLogsRequest(q) ==
    /\ Open
    /\ \E ord \in Orderings(store, Matching(store, FilterOf(q.user), FilterOf(q.action))) :
         \E f \in ReadFailPoints(AnswerSize(store, q, ord)) :
            LET h == GetAuditLogsHandler(q, store, f, ord)
            IN resp' = [handler |-> "list", q |-> q, f |-> f, code |-> h.code,
                        body |-> h.body, queries |-> h.queries, limit |-> h.limit,
                        passed |-> h.passed, query |-> h.query]
    /\ UNCHANGED <<pipeVars, getVars, norm>>

\* GET /api/v1/audit-service/reports/{report_id} with the query parameters
\* filters, when the clock shows now.
GetReportRequest(reportID, filters, now) ==
    /\ Open
    /\ LET query == ReportQuery(reportID, filters, now)
           in == QueryRows(query, store)
       IN \E ord \in ReportOrderings(reportID, ReportGroups(reportID, store, in)) :
            \E f \in ReadFailPoints(Len(ord)) :
               LET h == GetReport(reportID, f, ord)
               IN resp' = [handler |-> "report", reportID |-> reportID,
                           filters |-> filters, now |-> now, query |-> query,
                           rows |-> in, f |-> f, code |-> h.code,
                           body |-> h.body, queries |-> h.queries]
    /\ UNCHANGED <<pipeVars, getVars, norm>>

NextRead ==
    \/ \E q \in Queries : GetAuditLogsRequest(q)
    \/ \E reportID \in KnownReports \cup {"", "audit-unknown"} :
          GetReportRequest(reportID, NoFilters, TxTime(store))

SpecRead == InitRead /\ [][NextRead]_vars

\* ------------------------------------------------------------ body payloads
\* Every body_raw of MaxBodyLen characters at most, and null.
BodyChars == {" ", "1", "a", Quote, Backslash}
BodyStrings ==
    UNION {[1..n -> BodyChars] : n \in 0..MaxBodyLen}
        \cup {<<"n", "u", "l", "l">>, <<"n", "u", "l", "l", " ">>}
BodyPtrs == {Nil} \cup {Ptr(b) : b \in BodyStrings}

\* The worker holds one accepted event and is about to flush it.
InitBody ==
    /\ \E b \in BodyPtrs :
          /\ batch = <<<<1, 1, NormalizeEntry(DefaultSeverity(
                                   DecodeEntry(ValidEntry(Nil, Nil, b))))>>>>
          /\ drained = batch
    /\ maxSize = NewBuffer(0, 0).maxSize
    /\ batchSize = NewBuffer(0, 0).batchSize
    /\ logChan = <<>>
    /\ wpc = "flushTick"
    /\ tickPending = FALSE
    /\ store = <<>>
    /\ seq = 0
    /\ call = [c \in Callers |-> IdleCall]
    /\ dropped = {}
    /\ flushed = <<>>
    /\ lost = {}
    /\ failures = 0
    /\ lastCall = NoCall
    /\ ServiceUp
    /\ resp = NoResp
    /\ norm = NoNorm

NoFilter == [user |-> <<>>, action |-> <<>>, limit |-> [kind |-> "absent", v |-> 0]]

NextBody ==
    \/ Open /\ WorkerFlush
    \/ GetAuditLogsRequest(NoFilter)

SpecBody == InitBody /\ [][NextBody]_vars

\* ------------------------------------------------------------ report requests
\* The entries the table of a report is filled with: a request of user u
\* that succeeded, a POST of user v with an action, a count and tokens that
\* failed, and a request of nobody that failed.
ReportEntries ==
    {ValidEntry(Nil, Ptr(SampleUser), Nil),
     [Entry(SamplePath, "POST", 500, TRUE, Ptr(<<"7">>), Ptr(<<"v">>), Nil)
         EXCEPT !.count = Ptr(2), !.tokens = Ptr(5)],
     Entry(SamplePath, "GET", 404, TRUE, Nil, Nil, Nil)}

\* The values a query parameter is given.
FilterValues(key) ==
    {Absent} \cup
    CASE key = "months" -> {IntParam(2), TextParam}
      [] key = "month" -> {IntParam(0), TextParam}
      [] key = "user_id" -> {StrParam(SampleUser)}
      [] key = "http_method" -> {WordParam("POST")}
      [] key = "action" -> {StrParam(<<"7">>)}
      [] key = "min_tokens" -> {IntParam(5), TextParam}
      [] key = "min_response_time" -> {IntParam(1), TextParam}
      [] key = "status_code" -> {IntParam(500), TextParam}
      [] key = "status_code_min" -> {IntParam(400)}
      [] key = "status_code_max" -> {IntParam(499)}
      [] key = "search_query" -> {StrParam(<<"u">>)}

\* The filter sets with two parameters given at most.
FilterSets ==
    UNION {UNION {{[NoFilters EXCEPT ![k1] = v1, ![k2] = v2] :
                      v1 \in FilterValues(k1), v2 \in FilterValues(k2)} :
                     k2 \in FilterKeys \ {k1}} : k1 \in FilterKeys}

\* When a report is asked for: at once after the last insert, or a month later.
Clock(st) == {TxTime(st), TxTime(st) + Month}

\* Reports with filters and filtered reads over the table one request made.
InitReport == \E h \in FlushedOf(ReportEntries, 1) : TableIs(h)

NextReport ==
    \/ Open /\ \E reportID \in KnownReports, filters \in FilterSets,
                   now \in Clock(store) :
                  GetReportRequest(reportID, filters, now)
    \/ Open /\ \E q \in Queries : GetAuditLogsRequest(q)

SpecReport == InitReport /\ [][NextReport]_vars

\* The reports with a percentage over the tables of MaxEvents rows at most.
InitPercent == \E h \in FlushedOf(ReportEntries, MaxEvents) : TableIs(h)

NextPercent ==
    Open /\ \E reportID \in PercentageReports, months \in FilterValues("months"),
       now \in Clock(store) :
        GetReportRequest(reportID, [NoFilters EXCEPT !["months"] = months], now)

SpecPercent == InitPercent /\ [][NextPercent]_vars

\* ------------------------------------------------------------ the table
\* SELECT DISTINCT action ... ORDER BY action ASC: byte order of the strings.
Alphabet == <<"*", "-", "/", "0", "1", "2", "3", "4", "5", "6", "7", "8", "9",
              "a", "b", "d", "i", "s", "u", "v", "y">>
CharCode(ch) == CHOOSE k \in 1..Len(Alphabet) : Alphabet[k] = ch
RECURSIVE StrLess(_, _)
StrLess(a, b) ==
    IF Len(b) = 0 THEN FALSE
    ELSE IF Len(a) = 0 THEN TRUE
    ELSE IF Head(a) = Head(b) THEN StrLess(Tail(a), Tail(b))
    ELSE CharCode(Head(a)) < CharCode(Head(b))
RECURSIVE Sorted(_)
Sorted(set) ==
    IF set = {} THEN <<>>
    ELSE LET least == CHOOSE a \in set : \A b \in set \ {a} : StrLess(a, b)
         IN <<least>> \o Sorted(set \ {least})

\* AuditLogDB.GetDistinctActions
GetDistinctActions(st, f) ==
    LET actions == Sorted({st[i][3].action.v :
                              i \in {k \in 1..Len(st) : ~st[k][3].action.nil}})
    IN IF f.at # "none" THEN [err |-> TRUE, actions |-> NilSlice]
       ELSE [err |-> FALSE, actions |-> SliceOf(actions)]

\* GetActionsHandler
GetActionsHandler(st, f) ==
    LET r == GetDistinctActions(st, f)
    IN IF r.err THEN [code |-> 500, body |-> ErrorBody]
       ELSE [code |-> 200, body |-> Encode(r.actions)]

\* GET /api/audit-logs/actions
GetActionsRequest ==
    /\ Open
    /\ \E f \in ReadFailPoints(Cardinality({store[i][3].action :
                                              i \in 1..Len(store)} \ {Nil})) :
          LET h == GetActionsHandler(store, f)
          IN resp' = [handler |-> "actions", f |-> f, code |-> h.code,
                      body |-> h.body]
    /\ UNCHANGED <<pipeVars, getVars, norm>>

\* Entries as clients submit them: with and without a severity, an id and a
\* created_at of their own.
SubmittedAs(j, id, createdAt, severity) ==
    [j EXCEPT !.id = id, !.createdAt = createdAt, !.severity = severity]
StoreEntries ==
    {ValidEntry(Nil, Nil, Nil),
     SubmittedAs(ValidEntry(Ptr(<<"7">>), Ptr(SampleUser), Nil), 1, 9, "HIGH")}

\* The service from its start: requests, the worker with its ticker, reads.
InitStore ==
    /\ \E cb \in 1..MaxThreshold : NewPipeline(NewBuffer(MaxCap, cb))
    /\ ServiceUp
    /\ resp = NoResp
    /\ norm = NoNorm

StoreQueries ==
    {[user |-> SampleUser, action |-> <<"7">>, limit |-> [kind |-> "int", v |-> 1]]}

NextStore ==
    \/ \E req \in RequestsOf(StoreEntries) : PostAuditLogs(req)
    \/ Open /\ WorkerRecv
    \/ Open /\ TimerFire
    \/ Open /\ WorkerTick
    \/ Open /\ WorkerFlush
    \/ \E q \in StoreQueries : GetAuditLogsRequest(q)
    \/ GetActionsRequest
    \/ GetReportRequest("audit-most-active-users", NoFilters, TxTime(store))

SpecStore == InitStore /\ [][NextStore]_vars

\* ------------------------------------------------------------ vocabulary
\* Events that entered logChan: still queued, or received by the worker.
Enqueued == Range(logChan) \cup Range(drained)
\* Events of goroutine c's call.
EventsOf(c) == {<<c, i>> : i \in 1..call[c].n}
\* Events of c's call that AddLogs has already decided.
Decided(c) == {<<c, i>> : i \in 1..(call[c].pos - 1)}
InLoop(c) == call[c].pc = "loop"
Returned == lastCall.c # 0
DroppedOfLast == {e \in dropped : e[1] = lastCall.c}

\* ------------------------------------------------------------ C1
\* The count AddLogs holds (and returns) is the number of this call's events
\* that entered the channel; every decided event was enqueued or dropped.
C1_CountIsEnqueued ==
    \A c \in Callers :
        /\ call[c].addedCount = Cardinality(Decided(c) \cap Enqueued)
        /\ Decided(c) \cap dropped = Decided(c) \ Enqueued
        /\ (EventsOf(c) \ Decided(c)) \cap (Enqueued \cup dropped) = {}

\* A call inside its loop can always take its next iteration.
C1_NeverBlocks == \A c \in Callers : InLoop(c) => ENABLED AddLogsSend(c)

\* An iteration of c decides event <<c, pos>> at once: enqueued at the tail
\* when the channel has room, dropped (channel untouched) when it is full.
C1_DecidesAtOnce ==
    \A c \in Callers :
        (InLoop(c) /\ call'[c].pos # call[c].pos) =>
            LET e == <<c, call[c].pos>>
            IN /\ call'[c].pos = call[c].pos + 1
               /\ Len(logChan) < maxSize =>
                     /\ logChan' = Append(logChan, e)
                     /\ dropped' = dropped
                     /\ call'[c].addedCount = call[c].addedCount + 1
               /\ Len(logChan) >= maxSize =>
                     /\ logChan' = logChan
                     /\ dropped' = dropped \cup {e}
                     /\ call'[c].addedCount = call[c].addedCount

\* C1: AddLogs never blocks; each event, in order, is enqueued at once or
\* dropped at once, and the returned count is the number of events of this
\* call that were enqueued, whatever the worker and other callers do.
C1_AddLogsNonBlocking ==
    /\ [](C1_CountIsEnqueued /\ C1_NeverBlocks)
    /\ [][C1_DecidesAtOnce]_vars

\* A call returned having enqueued some events and dropped others while
\* another call was inside its loop.
C1_Witness ==
    /\ Returned
    /\ 0 < lastCall.addedCount
    /\ lastCall.addedCount < lastCall.n
    /\ \E d \in Callers : InLoop(d)

\* ------------------------------------------------------------ C2
\* No event is passed to BatchInsertAuditLogs twice, and an event of a call
\* that succeeded is a row of the store exactly once.
C2_AtMostOnce ==
    \A e \in Enqueued :
        /\ Occurrences(flushed, e) <= 1
        /\ (e \in Range(flushed) /\ e \notin lost) => Occurrences(store, e) = 1

\* Every enqueued event is eventually passed to BatchInsertAuditLogs: the set
\* Enqueued only grows, so an event enqueued now is among the events flushed
\* the next time every enqueued event is.
C2_EventuallyFlushed == []<>(Enqueued \subseteq Range(flushed))

\* C2 as stated: a batch smaller than the free capacity at the start of its
\* call is queued whole, and every event is eventually flushed exactly once.
C2_Original ==
    /\ [](Returned /\ lastCall.n < lastCall.free
            => lastCall.addedCount = lastCall.n)
    /\ []C2_AtMostOnce
    /\ C2_EventuallyFlushed

\* C2 (amended): a batch smaller than the free capacity at the start of its
\* call, during which no other AddLogs call enqueued an event, is queued
\* whole; every enqueued event is eventually passed to BatchInsertAuditLogs,
\* in exactly one flush, while the worker and its ticker keep running.
C2_QueuedWholeAndFlushedOnce ==
    /\ [](Returned /\ lastCall.n < lastCall.free /\ ~lastCall.otherEnq
            => lastCall.addedCount = lastCall.n)
    /\ []C2_AtMostOnce
    /\ C2_EventuallyFlushed

\* A call that began with more free capacity than events returned with all of
\* them queued, and they are rows of the store, once each.
C2_Witness ==
    /\ Returned
    /\ lastCall.n < lastCall.free
    /\ ~lastCall.otherEnq
    /\ lastCall.addedCount = lastCall.n
    /\ failures = 0
    /\ \A i \in 1..lastCall.n : Occurrences(store, <<lastCall.c, i>>) = 1

\* ------------------------------------------------------------ C3
\* C3 as stated: more events than the free capacity at the start of the call
\* give a count strictly below the number submitted, the deficit being the
\* number of events dropped, also when the worker drains during the call.
C3_Original ==
    (Returned /\ lastCall.n > lastCall.free) =>
        /\ lastCall.addedCount < lastCall.n
        /\ lastCall.n - lastCall.addedCount = Cardinality(DroppedOfLast)

\* C3 (amended): the deficit of a returned call is always the number of its
\* events dropped for overflow; with more events than the free capacity at its
\* start the count is strictly below the number submitted provided the worker
\* received no event from the channel during the call.
C3_DeficitIsDropped ==
    Returned =>
        /\ lastCall.n - lastCall.addedCount = Cardinality(DroppedOfLast)
        /\ (lastCall.n > lastCall.free /\ ~lastCall.drainSeen)
               => lastCall.addedCount < lastCall.n

\* A call with more events than free capacity returned, undisturbed by the
\* worker, with some events queued and the others dropped.
C3_Witness ==
    /\ Returned
    /\ lastCall.n > lastCall.free
    /\ ~lastCall.drainSeen
    /\ 0 < lastCall.addedCount
    /\ lastCall.addedCount < lastCall.n
    /\ Cardinality(DroppedOfLast) = lastCall.n - lastCall.addedCount

\* ------------------------------------------------------------ C4
\* A step of the worker that passes a batch to BatchInsertAuditLogs.
FlushStep == flushed' # flushed
\* A step of the worker that receives from logChan.
RecvStep == drained' # drained
\* A step of the worker that takes the ticker case.
TickStep == tickPending /\ ~tickPending'

\* The batch never exceeds the threshold, and a batch at the threshold means
\* the worker is inside its flush: the only step the worker can take.
C4_FullBatchIsInFlush ==
    /\ Len(batch) <= batchSize
    /\ Len(batch) >= batchSize <=> wpc = "flushSize"
    /\ wpc = "flushSize" =>
          /\ ENABLED WorkerFlush
          /\ ~ENABLED WorkerRecv
          /\ ~ENABLED WorkerTick

\* With the batch at the threshold nothing is received, and the batch changes
\* only by being passed whole to BatchInsertAuditLogs.
C4_FlushBeforeDrain ==
    Len(batch) >= batchSize =>
        /\ ~RecvStep
        /\ batch' # batch => (FlushStep /\ flushed' = flushed \o batch /\ batch' = <<>>)

\* C4: as soon as the batch reaches the threshold the worker flushes the whole
\* batch before it receives any further event, timer fired or not.
C4_SizeTriggeredFlush ==
    /\ []C4_FullBatchIsInFlush
    /\ [][C4_FlushBeforeDrain]_vars

\* The worker is inside a size-triggered flush while an event waits in the
\* channel and no tick is pending.
C4_Witness ==
    /\ wpc = "flushSize"
    /\ Len(batch) = batchSize
    /\ ~tickPending
    /\ Len(logChan) > 0

\* ------------------------------------------------------------ C5
\* The worker is inside a time-triggered flush only with a partial batch.
C5_TickFlushIsPartial ==
    /\ wpc = "flushTick" => (0 < Len(batch) /\ Len(batch) < batchSize)
    /\ (wpc = "select" /\ tickPending) => ENABLED WorkerTick

\* The ticker case: a non-empty batch enters the flush untouched, an empty
\* batch makes no storage call; the flush it enters passes the whole batch.
C5_TickCase ==
    /\ TickStep =>
          IF Len(batch) > 0
          THEN wpc' = "flushTick" /\ batch' = batch /\ ~FlushStep
          ELSE /\ wpc' = "select"
               /\ batch' = <<>>
               /\ ~FlushStep
               /\ store' = store
    /\ (wpc = "flushTick" /\ wpc' # wpc) =>
          /\ flushed' = flushed \o batch
          /\ batch' = <<>>

\* C5: a tick with a non-empty batch below the threshold flushes that partial
\* batch; a tick with an empty batch makes no storage call.
C5_TimeTriggeredFlush ==
    /\ []C5_TickFlushIsPartial
    /\ [][C5_TickCase]_vars

\* The worker took the ticker case with a partial batch and is inside its flush.
C5_Witness ==
    /\ wpc = "flushTick"
    /\ 0 < Len(batch)
    /\ Len(batch) < batchSize

\* ------------------------------------------------------------ C6
\* The events of a failed flush are nowhere: not queued, not batched, not
\* stored, and passed to BatchInsertAuditLogs that one time only.
C6_LostIsGone ==
    \A e \in lost :
        /\ e \notin Range(logChan)
        /\ e \notin Range(batch)
        /\ e \notin Range(store)
        /\ Occurrences(flushed, e) = 1

\* A flush empties the batch, puts nothing back in the channel and changes no
\* submitter's state.
C6_FlushClears ==
    FlushStep =>
        /\ batch' = <<>>
        /\ logChan' = logChan
        /\ lastCall' = lastCall
        /\ \A c \in Callers : /\ call'[c].pc = call[c].pc
                              /\ call'[c].addedCount = call[c].addedCount

\* C6: after every flush attempt the batch is empty; the events of a failed
\* BatchInsertAuditLogs are never re-queued, re-batched or persisted, and no
\* submitter learns of the failure.
C6_FailedBatchIsLost ==
    /\ []C6_LostIsGone
    /\ [][C6_FlushClears]_vars

\* A flush failed, and an event drained after it was persisted by a later flush.
C6_Witness ==
    /\ batch = <<>>
    /\ \E e \in lost : \E k \in 1..Len(store) :
           Pos(flushed, e) < Pos(flushed, store[k])

\* ------------------------------------------------------------ C7
NotLost(e) == e \notin lost

\* The store holds exactly the events of the calls that succeeded, in call
\* order: every call added its whole batch or nothing.
C7_StoreIsSuccessfulBatches == store = SelectSeq(flushed, NotLost)

\* Whatever the failure point, a call on the current store and batch returns
\* an error and the store as it was, or no error and the store extended by
\* the whole batch; a call with an empty batch succeeds and changes nothing.
C7_AllOrNothing ==
    /\ \A f \in FailPoints(batch) :
          LET r == BatchInsertAuditLogs(store, seq, batch, f)
          IN IF r.err
             THEN r.store = store /\ f.at # "none" /\ Len(batch) > 0
             ELSE r.store = store \o batch /\ (f.at = "none" \/ Len(batch) = 0)
    /\ \A f \in FailPoints(<<>>) :
          BatchInsertAuditLogs(store, seq, <<>>, f) = [store |-> store, err |-> FALSE]

\* C7: BatchInsertAuditLogs is atomic per call: all events of the batch are
\* in the store and the result is success, or none is and the result is an
\* error, wherever it fails; an empty batch succeeds and changes nothing.
C7_BatchInsertAtomic == C7_StoreIsSuccessfulBatches /\ C7_AllOrNothing

\* A batch of two rows failed as a whole beside a batch that was persisted.
C7_Witness ==
    /\ failures = 1
    /\ Cardinality(lost) >= 2
    /\ Len(store) > 0
    /\ Range(store) \cap lost = {}

\* ------------------------------------------------------------ C8
\* Events of one call appear in s in the order of their indices.
CallOrdered(s) ==
    \A i, j \in 1..Len(s) :
        (i < j /\ s[i][1] = s[j][1]) => s[i][2] < s[j][2]

\* C8: every flush passes the events in the order the worker drained them,
\* the channel is FIFO (events of one call are drained, and stored, in
\* submission order) and a dropped event is absent without reordering.
C8_FlushKeepsDrainOrder ==
    /\ flushed \o batch = drained
    /\ CallOrdered(drained \o logChan)
    /\ CallOrdered(store)
    /\ \A i, j \in 1..Len(store) :
          i < j => Pos(drained, store[i]) < Pos(drained, store[j])
    /\ dropped \cap (Enqueued \cup Range(store)) = {}

\* Events 1 and 3 of a call were persisted by one flush, in that order, while
\* event 2 of the call was dropped.
C8_Witness ==
    \E c \in Callers :
        /\ <<c, 2>> \in dropped
        /\ \E k \in 1..(Len(store) - 1) :
               store[k] = <<c, 1>> /\ store[k + 1] = <<c, 3>>

\* ------------------------------------------------------------ C9
\* C9: after any number of calls to buffer.Get and service.Get, sequential or
\* concurrent, every caller holds the same Buffer and there is exactly one
\* startWorker goroutine.
C9_OneBufferOneWorker ==
    /\ Cardinality(workers) <= 1
    /\ \A g \in Goroutines :
          getter[g].pc = "done" =>
              /\ Cardinality(workers) = 1
              /\ getter[g].held \in workers
    /\ \A g, h \in Goroutines :
          (getter[g].pc = "done" /\ getter[h].pc = "done")
              => getter[g].held = getter[h].held

\* ------------------------------------------------------------ C10
\* A step of goroutine c's AddLogs.
SendStep(c) == InLoop(c) /\ call'[c].pos # call[c].pos

\* Only a step of the worker, from inside its flush, reaches the store.
C10_StorageOnlyInWorker ==
    (FlushStep \/ store' # store) =>
        /\ wpc \in Flushing
        /\ wpc' = "select"
        /\ lastCall' = lastCall
        /\ \A c \in Callers : ~SendStep(c) /\ call'[c].pc = call[c].pc

\* While the worker is inside a flush an iteration of AddLogs is enabled and
\* enqueues exactly when the channel has room.
C10_SendDuringFlush ==
    \A c \in Callers :
        (wpc \in Flushing /\ SendStep(c)) =>
            /\ wpc' = wpc
            /\ batch' = batch
            /\ IF Len(logChan) < maxSize
               THEN logChan' = Append(logChan, <<c, call[c].pos>>)
               ELSE logChan' = logChan /\ <<c, call[c].pos>> \in dropped'

\* A call that ran while the worker was inside one flush, alone, queued as many
\* events as the free capacity allowed and dropped the rest.
C10_UpToFreeCapacity ==
    /\ \A c \in Callers : (wpc \in Flushing /\ InLoop(c)) => ENABLED AddLogsSend(c)
    /\ (Returned /\ lastCall.inFlush /\ ~lastCall.otherEnq) =>
          /\ lastCall.addedCount = Min(lastCall.n, lastCall.free)
          /\ Cardinality(DroppedOfLast) = lastCall.n - lastCall.addedCount

\* C10: no storage call is made on a submitting goroutine; while the worker is
\* inside a flush AddLogs returns without waiting, accepting events up to the
\* free capacity and dropping the rest.
C10_NoStorageCallOnSubmit ==
    /\ []C10_UpToFreeCapacity
    /\ [][C10_StorageOnlyInWorker /\ C10_SendDuringFlush]_vars

\* A call began and returned while the worker was inside one flush: it queued
\* an event and dropped another.
C10_Witness ==
    /\ Returned
    /\ lastCall.inFlush
    /\ 0 < lastCall.addedCount
    /\ lastCall.addedCount < lastCall.n

\* ------------------------------------------------------------ C17
\* The index of the last "/" of p, 0 when p has none.
LastSlash(p) ==
    IF \E i \in 1..Len(p) : p[i] = "/"
    THEN CHOOSE i \in 1..Len(p) : p[i] = "/" /\ \A j \in (i + 1)..Len(p) : p[j] # "/"
    ELSE 0
\* The final segment of p: what follows its last "/", all of p when it has none.
FinalSegment(p) == SubSeq(p, LastSlash(p) + 1, Len(p))
AllDigits(s) == s # <<>> /\ Range(s) \subseteq Digits
\* p with its final segment replaced by "*".
StarredFinal(p) == SubSeq(p, 1, LastSlash(p)) \o <<"*">>

\* C17 as stated: a purely numeric final segment becomes "*", any other path
\* is unchanged, and normalizing the result again changes nothing.
C17_Original ==
    norm.pc = "endpoint" =>
        /\ norm.out = IF AllDigits(FinalSegment(norm.path))
                      THEN StarredFinal(norm.path) ELSE norm.path
        /\ norm.twice = norm.out

\* C17 (amended): a purely numeric final segment that follows a "/" becomes
\* "*"; every other path, also one that is a number with no "/" at all or one
\* ending in "/*", is unchanged; normalizing the result again changes nothing.
C17_NumericFinalSegmentStarred ==
    norm.pc = "endpoint" =>
        /\ norm.out = IF LastSlash(norm.path) > 0 /\ AllDigits(FinalSegment(norm.path))
                      THEN StarredFinal(norm.path) ELSE norm.path
        /\ norm.twice = norm.out
        /\ (Len(norm.path) >= 2 /\ SubSeq(norm.path, Len(norm.path) - 1, Len(norm.path)) = <<"/", "*">>)
              => norm.out = norm.path

\* A path with a numeric segment before its numeric final segment: only the
\* final one was replaced.
C17_Witness ==
    /\ norm.pc = "endpoint"
    /\ norm.out # norm.path
    /\ \E i \in 1..LastSlash(norm.path) : norm.path[i] \in Digits
    /\ \E i \in 1..LastSlash(norm.out) : norm.out[i] \in Digits

\* ------------------------------------------------------------ C18
\* p without the "/" it begins and ends with.
Stripped(p) ==
    LET keep == {i \in 1..Len(p) : p[i] # "/"}
    IN IF keep = {} THEN <<>>
       ELSE SubSeq(p, CHOOSE i \in keep : \A j \in keep : i <= j,
                      CHOOSE i \in keep : \A j \in keep : i >= j)
SlashCount(p) == Cardinality({i \in 1..Len(p) : p[i] = "/"})
\* The index of the k-th "/" of p; Len(p) + 1 when p has fewer.
SlashAt(p, k) ==
    IF SlashCount(p) < k THEN Len(p) + 1
    ELSE CHOOSE i \in 1..Len(p) :
             p[i] = "/" /\ Cardinality({j \in 1..i : p[j] = "/"}) = k
SegmentCount(p) == SlashCount(Stripped(p)) + 1
ThirdSegment(p) ==
    LET t == Stripped(p) IN SubSeq(t, SlashAt(t, 2) + 1, SlashAt(t, 3) - 1)
OneSRemoved(s) ==
    IF s # <<>> /\ s[Len(s)] = "s" THEN SubSeq(s, 1, Len(s) - 1) ELSE s

\* C18: a non-numeric or empty action is unchanged; a numeric one becomes the
\* third segment of the path, one trailing s removed, followed by "-by-id"
\* when the path has three segments or more, and is unchanged otherwise; the
\* handler takes the segment from the path as submitted and only then
\* rewrites the path.
C18_NumericActionNamedByResource ==
    norm.pc = "entry" =>
        /\ norm.outPath = normalizeEndpoint(norm.path)
        /\ norm.outAction.nil = norm.action.nil
        /\ norm.outAction.v =
              IF AllDigits(norm.action.v) /\ SegmentCount(norm.path) >= 3
              THEN OneSRemoved(ThirdSegment(norm.path)) \o ByID
              ELSE norm.action.v

\* A numeric action with a path whose third segment is its numeric final one:
\* the action is named after the number, which the path no longer shows.
C18_Witness ==
    /\ norm.pc = "entry"
    /\ AllDigits(norm.action.v)
    /\ SegmentCount(norm.path) = 3
    /\ AllDigits(ThirdSegment(norm.path))
    /\ norm.outPath # norm.path
    /\ norm.outAction.v = ThirdSegment(norm.path) \o ByID

\* ------------------------------------------------------------ POST claims
\* A step that answers a POST /api/audit-logs.
PostStep == resp' # resp /\ resp'.handler = "create"

\* An entry as submitted lacks the endpoint path, the method or the status.
Offending(j) == j.ep = <<>> \/ j.method = "" \/ j.status = 0
\* The index, from 0, of the first such entry of a request; -1 when none.
FirstOffendingIndex(req) ==
    IF \E i \in 1..Len(req.logs) : Offending(req.logs[i])
    THEN (CHOOSE i \in 1..Len(req.logs) :
             /\ Offending(req.logs[i])
             /\ \A k \in 1..(i - 1) : ~Offending(req.logs[k])) - 1
    ELSE -1
\* The request fails validation: no entry, or an offending one.
FailsValidation(req) ==
    req.decodes /\ (Len(req.logs) = 0 \/ FirstOffendingIndex(req) >= 0)

\* C11: a request with an empty array or with an entry that lacks endpoint
\* path, method or status code is answered 400, naming the index of the first
\* such entry, and the step leaves the queue as it was: no event of the
\* request is enqueued or dropped, the valid entries before the offending one
\* included.
C11_ValidationAllOrNothing ==
    [][(PostStep /\ FailsValidation(resp'.req)) =>
          /\ resp'.code = 400
          /\ resp'.index = FirstOffendingIndex(resp'.req)
          /\ resp'.queued = 0
          /\ logChan' = logChan
          /\ EventsSoFar' = EventsSoFar]_vars

\* A request of two entries, the first valid and the second not, is answered
\* 400 naming entry 1 while an earlier event waits in the queue.
C11_Witness ==
    /\ resp.handler = "create"
    /\ resp.code = 400
    /\ Len(resp.req.logs) = 2
    /\ ~Offending(resp.req.logs[1])
    /\ Offending(resp.req.logs[2])
    /\ resp.index = 1
    /\ Len(logChan) > 0

\* C12 as stated: a request with an entry that has no response_time_seconds
\* is rejected with 400 and nothing of it is enqueued.
C12_LatencyRequired ==
    (/\ resp.handler = "create"
     /\ resp.req.decodes
     /\ \E i \in 1..Len(resp.req.logs) : ~resp.req.logs[i].latency.present)
        => resp.code = 400

\* C13 as stated: 202 for a valid request, 400 for a validation failure, 500
\* when the body does not decode.
C13_Original ==
    resp.handler = "create" =>
        /\ ~resp.req.decodes => resp.code = 500
        /\ FailsValidation(resp.req) => resp.code = 400
        /\ (resp.req.decodes /\ ~FailsValidation(resp.req)) => resp.code = 202

\* C13 (amended): 202 with queued_count, the number of events the step adds
\* to the queue, when the body decodes and no entry lacks endpoint path,
\* method or status code; 400 otherwise, a body that does not decode
\* included; never 500; a 400 leaves the queue as it was.
C13_PostOutcomes ==
    [][PostStep =>
          /\ resp'.code \in {202, 400}
          /\ resp'.code = 202 <=>
                (resp'.req.decodes /\ ~FailsValidation(resp'.req))
          /\ resp'.code = 202 =>
                /\ resp'.queued = Len(logChan') - Len(logChan)
                /\ Cardinality(EventsSoFar') =
                      Cardinality(EventsSoFar) + Len(resp'.req.logs)
          /\ resp'.code = 400 =>
                /\ resp'.queued = 0
                /\ logChan' = logChan
                /\ EventsSoFar' = EventsSoFar]_vars

\* A body that does not decode is answered 400 while an event waits in the
\* queue.
C13_Witness ==
    /\ resp.handler = "create"
    /\ ~resp.req.decodes
    /\ resp.code = 400
    /\ Len(logChan) > 0

\* ------------------------------------------------------------ read claims
\* The limit of [1, 500] for a limit parameter that parses, and for none.
Clamp(l) ==
    IF l.kind = "absent" THEN 500
    ELSE IF l.v <= 0 THEN 500
    ELSE IF l.v > 500 THEN 500
    ELSE l.v
\* The limit parameter is absent or parses as an int.
Parses(l) == l.kind \in {"absent", "int"}
\* The rows of the table a query's filters select.
Selected(q) ==
    {i \in 1..Len(store) :
        /\ q.user # <<>> => store[i][3].user = Ptr(q.user)
        /\ q.action # <<>> => store[i][3].action = Ptr(q.action)}
\* The answer of a filtered read.
ListAnswer == resp.handler = "list"
Answered200 == resp.code = 200 /\ resp.f.at = "none"

\* C14: for an absent limit and for every limit that parses, the handler
\* passes on, and the store applies, the limit clamped to [1, 500] (500 for
\* absent, zero, negative and above 500; n for 1 <= n <= 500), and the read
\* answers with the newest rows the filters select, that many at most,
\* newest first.
C14_LimitClamped ==
    (ListAnswer /\ Parses(resp.q.limit)) =>
        /\ resp.passed = Clamp(resp.q.limit)
        /\ resp.limit = Clamp(resp.q.limit)
        /\ resp.limit \in 1..500
        /\ Answered200 =>
              LET rows == resp.body.elems
              IN /\ Len(rows) = Min(resp.limit, Cardinality(Selected(resp.q)))
                 /\ \A k \in 1..(Len(rows) - 1) :
                        rows[k].createdAt >= rows[k + 1].createdAt
                 /\ \A k \in 1..Len(rows) :
                        Cardinality({i \in Selected(resp.q) :
                            store[i][3].createdAt > rows[k].createdAt}) < k

\* limit=2 on a table of more rows, of two transactions: the two newest rows.
C14_Witness ==
    /\ ListAnswer
    /\ Answered200
    /\ resp.q.limit = [kind |-> "int", v |-> 2]
    /\ Cardinality(Selected(resp.q)) > 2
    /\ Len(resp.body.elems) = 2
    /\ \E i \in Selected(resp.q) :
          store[i][3].createdAt < resp.body.elems[2].createdAt

\* C15: a limit that does not parse is answered 400 and no query is issued;
\* otherwise a failure of the query, of a scan or of the iteration is
\* answered 500, and a read without failure 200.
C15_ListOutcomes ==
    ListAnswer =>
        /\ ~Parses(resp.q.limit) => (resp.code = 400 /\ resp.queries = 0)
        /\ (Parses(resp.q.limit) /\ resp.f.at # "none") =>
              (resp.code = 500 /\ resp.queries = 1)
        /\ (Parses(resp.q.limit) /\ resp.f.at = "none") =>
              (resp.code = 200 /\ resp.queries = 1)

\* limit=abc on a table with rows: 400, no query.
C15_Witness ==
    /\ ListAnswer
    /\ resp.q.limit.kind = "text"
    /\ resp.code = 400
    /\ resp.queries = 0
    /\ Len(store) > 0

\* C16: an unknown report_id is answered 404 and no query is issued; a known
\* one is answered 500 exactly when the query or a row scan fails, else 200.
C16_ReportOutcomes ==
    resp.handler = "report" =>
        IF resp.reportID \notin
              {"audit-frequently-used-actions", "audit-issues-synced-trend",
               "audit-token-usage", "audit-slow-actions", "audit-failed-endpoints",
               "audit-user-questions", "audit-most-active-users",
               "audit-daily-active-users"}
        THEN resp.code = 404 /\ resp.queries = 0
        ELSE /\ resp.queries = 1
             /\ resp.code = 500 <=> resp.f.at \in {"query", "scan"}
             /\ resp.code = 200 <=> resp.f.at \notin {"query", "scan"}

\* An unknown report_id on a table with rows: 404, no query.
C16_Witness ==
    /\ resp.handler = "report"
    /\ resp.reportID = "audit-unknown"
    /\ resp.code = 404
    /\ resp.queries = 0
    /\ Len(store) > 0

\* C20 as stated: a filtered read, and the report audit-most-active-users,
\* that succeed with no row to give answer 200 with an empty array, not null.
C20_EmptyArrayWhenNoMatch ==
    /\ (ListAnswer /\ Parses(resp.q.limit) /\ resp.f.at = "none"
          /\ Selected(resp.q) = {}) =>
           (resp.code = 200 /\ resp.body = [json |-> "array", elems |-> <<>>])
    /\ (/\ resp.handler = "report"
        /\ resp.reportID = "audit-most-active-users"
        /\ resp.f.at = "none"
        /\ \A i \in 1..Len(store) : store[i][3].user = Nil) =>
           (resp.code = 200 /\ resp.body = [json |-> "array", elems |-> <<>>])

\* ------------------------------------------------------------ body claims
\* The body_raw of the one event of SpecBody as submitted, and as a filtered
\* read that answers with the event gives it back.
SubmittedBody == drained[1][3].body
ReadBack == resp.body.elems[1].body
BodyRead == ListAnswer /\ resp.code = 200 /\ Len(resp.body.elems) = 1
ValidJSON(s) == ~Unmarshal(s).err
Parsed(s) == Unmarshal(s).val

\* C19 as stated: a JSON body is read back equal as a parsed structure, any
\* other body exactly as the submitted string.
C19_Original ==
    (BodyRead /\ ~SubmittedBody.nil) =>
        IF ValidJSON(SubmittedBody.v)
        THEN /\ ~ReadBack.nil
             /\ ValidJSON(ReadBack.v)
             /\ Parsed(ReadBack.v) = Parsed(SubmittedBody.v)
        ELSE ReadBack = SubmittedBody

\* C19 (amended): a JSON body other than null is read back as JSON text equal
\* to it as a parsed structure; a body that is not JSON and not empty is read
\* back as the JSON string literal of the submitted string, which parses to
\* it and is not the string itself; no body, an empty body and null are read
\* back as no body.
C19_BodyRoundTrip ==
    BodyRead =>
        IF SubmittedBody.nil \/ SubmittedBody.v = <<>> THEN ReadBack.nil
        ELSE IF ValidJSON(SubmittedBody.v)
        THEN IF Parsed(SubmittedBody.v) = NilValue THEN ReadBack.nil
             ELSE /\ ~ReadBack.nil
                  /\ ValidJSON(ReadBack.v)
                  /\ Parsed(ReadBack.v) = Parsed(SubmittedBody.v)
        ELSE /\ ~ReadBack.nil
             /\ ValidJSON(ReadBack.v)
             /\ Parsed(ReadBack.v) = [t |-> "str", v |-> SubmittedBody.v]
             /\ ReadBack.v # SubmittedBody.v
             /\ Len(ReadBack.v) >= Len(SubmittedBody.v) + 2

\* A body that is not JSON and holds a quote is read back quoted and escaped.
C19_Witness ==
    /\ BodyRead
    /\ ~SubmittedBody.nil
    /\ SubmittedBody.v = <<"a", Quote>>
    /\ ReadBack = Ptr(<<Quote, "a", Backslash, Quote, Quote>>)

\* ------------------------------------------------------------ C26
\* The state of the worker: flushing inside b.flush, idle at the select before
\* anything was received, accumulating at the select afterwards.
WorkerState ==
    IF wpc \in Flushing THEN "flushing"
    ELSE IF drained = <<>> THEN "idle"
    ELSE "accumulating"

\* The worker is never stuck: inside a flush the flush can return, at the
\* select each ready case can be taken; and it is idle with an empty batch.
C26_NoTerminalState ==
    /\ wpc \in {"select"} \cup Flushing
    /\ WorkerState = "idle" => (batch = <<>> /\ flushed = <<>>)
    /\ WorkerState = "flushing" => ENABLED WorkerFlush
    /\ (wpc = "select" /\ Len(logChan) > 0) => ENABLED WorkerRecv
    /\ (wpc = "select" /\ tickPending) => ENABLED WorkerTick

\* The steps between the states: idle is left by the first receive and never
\* entered again; a flush is entered with a non-empty batch of received
\* events, by the ticker only from accumulating; a flush, failed or not,
\* returns to accumulating with an empty batch.
C26_Transitions ==
    /\ WorkerState' = "idle" => WorkerState = "idle"
    /\ (WorkerState = "idle" /\ WorkerState' # "idle") => RecvStep
    /\ (WorkerState # "flushing" /\ WorkerState' = "flushing") =>
          /\ batch' # <<>>
          /\ Range(batch') \subseteq Range(drained')
          /\ ~RecvStep => (WorkerState = "accumulating" /\ batch # <<>>)
    /\ WorkerState = "flushing" =>
          \/ WorkerState' = "flushing" /\ wpc' = wpc /\ batch' = batch
          \/ WorkerState' = "accumulating" /\ batch' = <<>>
    /\ failures' # failures =>
          (WorkerState = "flushing" /\ WorkerState' = "accumulating")

\* C26: the worker goes idle -> accumulating -> flushing -> accumulating; it
\* is idle only before the first event is received, enters a flush only with
\* a non-empty batch, leaves every flush for accumulating with an empty batch,
\* and has no terminal state, a failed flush included.
C26_WorkerStateMachine ==
    /\ []C26_NoTerminalState
    /\ [][C26_Transitions]_vars

\* After a flush that failed the worker received again and is inside its next
\* flush.
C26_Witness ==
    /\ failures > 0
    /\ lost # {}
    /\ WorkerState = "flushing"
    /\ batch # <<>>
    /\ Range(batch) \cap lost = {}

\* ------------------------------------------------------------ C27
\* C27 as stated: when the logs held in the buffer reach AUDIT_BUFFER_MAX_SIZE
\* a flush is triggered: the worker does not wait at its select, everything
\* received, with a batch of maxSize logs or more.
C27_FlushAtMaxSize ==
    ~(/\ wpc = "select"
      /\ logChan = <<>>
      /\ Len(batch) >= maxSize)

\* ------------------------------------------------------------ C28
\* The batch is at most the threshold; inside a size-triggered flush it is
\* the threshold, inside a time-triggered flush between 1 and threshold - 1.
C28_BatchWithinThreshold ==
    /\ Len(batch) <= batchSize
    /\ wpc = "flushSize" => Len(batch) = batchSize
    /\ wpc = "flushTick" => Len(batch) \in 1..(batchSize - 1)
    /\ wpc = "select" => Len(batch) < batchSize

\* What a flush passes to BatchInsertAuditLogs: the batch, so as many events.
C28_FlushPassesBatch ==
    FlushStep =>
        /\ flushed' = flushed \o batch
        /\ wpc = "flushSize" => Len(flushed') - Len(flushed) = batchSize
        /\ wpc = "flushTick" =>
              Len(flushed') - Len(flushed) \in 1..(batchSize - 1)

\* C28: no call of BatchInsertAuditLogs carries more than the threshold: a
\* size-triggered flush passes exactly the threshold, a time-triggered one
\* between 1 and threshold - 1 events, whatever the capacity of the queue.
C28_NoInsertAboveThreshold ==
    /\ []C28_BatchWithinThreshold
    /\ [][C28_FlushPassesBatch]_vars

\* A size-triggered flush of a batch larger than the queue's capacity.
C28_Witness ==
    /\ wpc = "flushSize"
    /\ maxSize < batchSize
    /\ Len(batch) = batchSize
    /\ flushed = <<>>

\* ------------------------------------------------------------ C29
\* The events AddLogs has decided, and those it counted as added.
AllDecided == UNION {Decided(c) : c \in Callers}
Accepted == LET RECURSIVE Sum(_)
                Sum(c) == IF c = 0 THEN 0 ELSE call[c].addedCount + Sum(c - 1)
            IN Sum(MaxEvents)
NoDuplicates(s) == \A i, j \in 1..Len(s) : s[i] = s[j] => i = j

\* C29: every submitted event is in exactly one place: dropped, queued,
\* batched, persisted or lost; accepted = queued + batched + persisted +
\* lost; no event is passed to BatchInsertAuditLogs twice.
C29_Conservation ==
    LET places == <<dropped, Range(logChan), Range(batch), Range(store), lost>>
    IN /\ UNION {places[k] : k \in 1..5} = AllDecided
       /\ \A k, l \in 1..5 : k # l => places[k] \cap places[l] = {}
       /\ NoDuplicates(logChan) /\ NoDuplicates(batch) /\ NoDuplicates(store)
       /\ Accepted = Len(logChan) + Len(batch) + Len(store) + Cardinality(lost)
       /\ Accepted + Cardinality(dropped) = Cardinality(AllDecided)
       /\ NoDuplicates(flushed)
       /\ Range(flushed) = Range(store) \cup lost

\* Of three submitted events one was dropped, one lost in a failed flush and
\* one persisted.
C29_Witness ==
    /\ Cardinality(dropped) = 1
    /\ Cardinality(lost) = 1
    /\ Len(store) = 1
    /\ logChan = <<>>
    /\ batch = <<>>

\* ------------------------------------------------------------ C23, C24, C25
\* The event a row of the table was inserted for, as the handler queued it:
\* its severity is the submitted one, "NONE" when none was submitted.
QueuedFor(row) == CHOOSE e \in Range(flushed) : e[1] = row[1] /\ e[2] = row[2]

\* C23 (as stated): every persisted event has a non-empty severity, equal to
\* the severity submitted with it when one was given and "NONE" when it was
\* absent or empty.
C23_SeverityStored ==
    \A k \in 1..Len(store) :
        /\ store[k][3].severity # ""
        /\ store[k][3].severity = QueuedFor(store[k])[3].severity

\* The event with no id and no created_at supplied.
Unsupplied(e) == <<e[1], e[2], [e[3] EXCEPT !.id = 0, !.createdAt = 0]>>

C24_IdsAndInstants ==
    \A k \in 1..Len(store) :
        /\ store[k][3].id \in 1..seq
        /\ \A m \in 1..(k - 1) :
              /\ store[m][3].id # store[k][3].id
              /\ store[m][3].createdAt <= store[k][3].createdAt

C24_AssignedAtInsert ==
    store' # store =>
        \A k \in (Len(store) + 1)..Len(store') :
            LET i == k - Len(store)
            IN /\ store'[k][3].id = seq + i
               /\ store'[k][3].createdAt = TxTime(store)
               /\ store'[k] = InsertRow(store, seq + i, Unsupplied(batch[i]))

\* C24: the id and the creation instant of a row are assigned by the store at
\* insert (the next values of the id sequence, the time of the transaction)
\* and never taken from the caller: a row is the one the same entry gives
\* with no id and no created_at supplied; ids are unique and creation
\* instants do not decrease in insertion order.
C24_StoreAssignsIdAndCreatedAt ==
    []C24_IdsAndInstants /\ [][C24_AssignedAtInsert]_vars

\* Two rows stored, one of them submitted with an id and a created_at of its
\* own that the row does not have, after a failed insert left a gap in the ids.
C24_Witness ==
    /\ Len(store) >= 2
    /\ seq > Len(store)
    /\ \E k \in 1..Len(store) :
          /\ QueuedFor(store[k])[3].id = 1
          /\ QueuedFor(store[k])[3].createdAt = 9
          /\ store[k][3].id # 1
          /\ store[k][3].createdAt # 9

\* C25: the table changes only in a successful BatchInsertAuditLogs, which
\* appends one row for each entry of its batch, in order, and leaves the rows
\* before them as they were; a read (filtered, distinct actions, report), a
\* request and a failed insert leave the table as it was.
C25_Step ==
    /\ store' # store =>
          /\ wpc \in Flushing
          /\ batch # <<>>
          /\ failures' = failures
          /\ lost' = lost
          /\ Len(store') = Len(store) + Len(batch)
          /\ SubSeq(store', 1, Len(store)) = store
          /\ \A i \in 1..Len(batch) :
                /\ store'[Len(store) + i][1] = batch[i][1]
                /\ store'[Len(store) + i][2] = batch[i][2]
    /\ (resp' # resp \/ failures' # failures) => store' = store
C25_AppendOnly == [][C25_Step]_vars

\* The distinct actions were read from a table with rows, after an insert
\* had failed.
C25_Witness ==
    /\ resp.code = 200
    /\ resp.handler = "actions"
    /\ Len(store) > 0
    /\ failures > 0
    /\ lost # {}

\* ------------------------------------------------------------ C21
\* A report with a percentage was answered.
PercentageAnswer ==
    /\ resp.code = 200
    /\ resp.handler = "report"
    /\ resp.reportID \in PercentageReports
ReturnedRows == resp.body.elems
RECURSIVE CountsUpTo(_, _)
CountsUpTo(rows, n) == IF n = 0 THEN 0 ELSE rows[n].count + CountsUpTo(rows, n - 1)
ReturnedCount == CountsUpTo(ReturnedRows, Len(ReturnedRows))

\* The least exponent of the percentages of rows, and their exact sum, that
\* of 100 and that of 2^-45 as numbers of that exponent.
LeastExponent(rows) ==
    CHOOSE e \in {rows[k].percentage.e : k \in 1..Len(rows)} :
        \A k \in 1..Len(rows) : e <= rows[k].percentage.e
RECURSIVE SumOfPercentages(_, _, _)
SumOfPercentages(rows, n, e) ==
    IF n = 0 THEN <<>>
    ELSE AddBits(SumOfPercentages(rows, n - 1, e),
                 rows[n].percentage.m \o Zeros(rows[n].percentage.e - e))
HundredAt(e) == <<1, 1, 0, 0, 1, 0, 0>> \o Zeros(0 - e)
RoundingAt(e) == <<1>> \o Zeros(0 - 45 - e)
LessBits(a, b) ==
    LET n == IF Len(a) > Len(b) THEN Len(a) ELSE Len(b)
        x == PadTo(a, n)
        y == PadTo(b, n)
    IN \E i \in 1..n : x[i] < y[i] /\ \A j \in 1..(i - 1) : x[j] = y[j]

\* Each percentage is float64(count) / float64(sum of the returned counts) * 100.
C21_OfReturnedCounts ==
    \A k \in 1..Len(ReturnedRows) :
        ReturnedRows[k].percentage =
            FloatTimes100(FloatDiv(ReturnedRows[k].count, ReturnedCount))

\* C21 (as stated): each returned row's percentage is its count divided by
\* the sum of the counts of the returned rows times 100, and the percentages
\* of a non-empty result sum to 100.
C21_SumIs100 ==
    PercentageAnswer /\ Len(ReturnedRows) > 0 =>
        LET e == LeastExponent(ReturnedRows)
        IN /\ C21_OfReturnedCounts
           /\ Strip(SumOfPercentages(ReturnedRows, Len(ReturnedRows), e))
                 = Strip(HundredAt(e))

\* C21 (amended): each returned row's percentage is its count divided by the
\* sum of the counts of the returned rows times 100, in float64, and the
\* percentages of a non-empty result sum to 100 up to the rounding of
\* float64: their exact sum is less than 2^-45 away from 100.
C21_SumIs100UpToRounding ==
    PercentageAnswer /\ Len(ReturnedRows) > 0 =>
        LET e == LeastExponent(ReturnedRows)
            sum == SumOfPercentages(ReturnedRows, Len(ReturnedRows), e)
        IN /\ C21_OfReturnedCounts
           /\ LessBits(sum, AddBits(HundredAt(e), RoundingAt(e)))
           /\ LessBits(HundredAt(e), AddBits(sum, RoundingAt(e)))

\* The iteration broke off after the first row: the rows returned are fewer
\* than the rows the query matches, and the percentage of the row returned,
\* with a count of 2 of the 3 rows matched, is 100.
C21_Witness ==
    /\ PercentageAnswer
    /\ resp.f.at = "rows"
    /\ Len(ReturnedRows) = 1
    /\ ReturnedRows[1].count = 2
    /\ Cardinality(resp.rows) = 3
    /\ ReturnedRows[1].percentage = FloatTimes100(FloatDiv(1, 1))

\* ------------------------------------------------------------ C22, C30
\* A report of a known kind was asked for: its query was composed.
ReportAsked == resp.code \in {200, 500} /\ resp.handler = "report"

\* The filters besides the time window, and for each the predicate it
\* stands for.
RowFilters == FilterKeys \ {"months", "month"}
ColumnOf(key) ==
    CASE key = "min_tokens" -> "tokens_used"
      [] key = "min_response_time" -> "response_time_seconds"
      [] key \in {"status_code_min", "status_code_max"} -> "status_code"
      [] key = "search_query" -> "question"
      [] OTHER -> key
OperatorOf(key) ==
    CASE key \in {"min_tokens", "min_response_time", "status_code_min"} -> ">="
      [] key = "status_code_max" -> "<="
      [] key = "search_query" -> "ILIKE"
      [] OTHER -> "="
Carries(query, key) ==
    \E k \in 1..Len(query.where) :
        /\ query.where[k].ph > 0
        /\ query.where[k].col = ColumnOf(key)
        /\ query.where[k].op = OperatorOf(key)
Present(filters, key) == filters[key].kind # "absent"

\* What a filter asks of a row.
Satisfies(row, key, p) ==
    CASE key = "user_id" -> ~row.user.nil /\ row.user.v = p.s
      [] key = "action" -> ~row.action.nil /\ row.action.v = p.s
      [] key = "http_method" -> row.method = p.w
      [] key = "min_tokens" -> ~row.tokens.nil /\ row.tokens.v >= p.v
      [] key = "min_response_time" -> row.latency >= p.v
      [] key = "status_code" -> row.status = p.v
      [] key = "status_code_min" -> row.status >= p.v
      [] key = "status_code_max" -> row.status <= p.v
      [] OTHER -> FALSE

\* C22 (as stated): for every known report kind and every filter set, the
\* composed query carries a predicate for a filter exactly when that filter
\* is present, and every filter that is present restricts the rows the
\* report aggregates.
C22_PredicateIffPresent ==
    ReportAsked =>
        \A key \in RowFilters :
            /\ Carries(resp.query, key) <=> Present(resp.filters, key)
            /\ Present(resp.filters, key) =>
                  \A i \in resp.rows : Satisfies(store[i][3], key, resp.filters[key])

\* The filters a report kind reads, and the filters that are numbers.
FiltersRead(reportID) ==
    CASE reportID = "audit-frequently-used-actions" -> {"user_id", "http_method"}
      [] reportID = "audit-issues-synced-trend" -> {"action"}
      [] reportID = "audit-token-usage" -> {"action", "min_tokens"}
      [] reportID = "audit-slow-actions" -> {"min_response_time", "status_code"}
      [] reportID = "audit-failed-endpoints" -> {"http_method"}
      [] reportID = "audit-user-questions" -> {"user_id", "search_query"}
      [] OTHER -> {}
Numeric == {"min_tokens", "min_response_time", "status_code"}
Applies(reportID, filters, key) ==
    /\ key \in FiltersRead(reportID)
    /\ Present(filters, key)
    /\ key \in Numeric => filters[key].kind = "int"

\* C22 (amended): the composed query carries a predicate for a filter
\* exactly when the report kind reads that filter, the filter is present and,
\* if it is a number, it parses; a filter that is absent, that the kind does
\* not read or that does not parse adds no predicate; every filter with a
\* predicate restricts the rows the report aggregates; and the time window is
\* a predicate of every query, months or month present or not.
C22_PredicateIffReadAndPresent ==
    ReportAsked =>
        /\ \A key \in RowFilters :
              /\ Carries(resp.query, key)
                    <=> Applies(resp.reportID, resp.filters, key)
              /\ Carries(resp.query, key) =>
                    \A i \in resp.rows :
                        Satisfies(store[i][3], key, resp.filters[key])
        /\ resp.query.where[1] = [col |-> "created_at", op |-> ">=", ph |-> 1]
        /\ \A i \in resp.rows : store[i][3].createdAt >= resp.query.args[1].v

\* Frequently used actions of user u, with a status_code_min the kind does
\* not read: one of the two rows of the table is aggregated.
C22_Witness ==
    /\ ReportAsked
    /\ resp.reportID = "audit-frequently-used-actions"
    /\ Present(resp.filters, "user_id")
    /\ Present(resp.filters, "status_code_min")
    /\ Carries(resp.query, "user_id")
    /\ ~Carries(resp.query, "status_code_min")
    /\ Cardinality(resp.rows) = 1
    /\ Len(store) = 2

\* A query was composed: by a report, or by GetAuditLogs.
QueryComposed ==
    /\ resp.code \in {200, 500}
    /\ resp.handler \in {"report", "list"}
Placeholders(query) ==
    {query.where[k].ph : k \in {j \in 1..Len(query.where) : query.where[j].ph > 0}}
        \cup (IF query.limitPh > 0 THEN {query.limitPh} ELSE {})

\* The value the predicate pred is composed for.
ValueFor(pred) ==
    IF resp.handler = "list"
    THEN CASE pred.col = "user_id" -> StrParam(resp.q.user)
           [] pred.col = "action" -> StrParam(resp.q.action)
    ELSE CASE pred.col = "created_at" -> TimeArg(resp.query.args[pred.ph].v)
           [] pred.col = "user_id" -> resp.filters["user_id"]
           [] pred.col = "action" -> resp.filters["action"]
           [] pred.col = "http_method" -> resp.filters["http_method"]
           [] pred.col = "tokens_used" -> IntParam(resp.filters["min_tokens"].v)
           [] pred.col = "response_time_seconds" ->
                  IntParam(resp.filters["min_response_time"].v)
           [] pred.col = "status_code" -> IntParam(resp.filters["status_code"].v)
           [] pred.col = "question" ->
                  StrParam(<<"%">> \o resp.filters["search_query"].s \o <<"%">>)

\* C30: in every composed query the placeholders are exactly $1..$n, n the
\* number of arguments, no two predicates use the same one, the i-th
\* argument is the value of the predicate that uses $i, and the argument of
\* LIMIT $n in GetAuditLogs is the limit.
C30_PlaceholdersMatchArguments ==
    QueryComposed =>
        LET query == resp.query
            used == {j \in 1..Len(query.where) : query.where[j].ph > 0}
        IN /\ Placeholders(query) = 1..Len(query.args)
           /\ \A j, k \in used : query.where[j].ph = query.where[k].ph => j = k
           /\ \A j \in used : query.limitPh # query.where[j].ph
           /\ \A j \in used : query.args[query.where[j].ph] = ValueFor(query.where[j])
           /\ query.limitPh > 0 => query.args[query.limitPh] = IntParam(resp.limit)

\* Slow actions with a min_response_time that does not parse and a
\* status_code: the status code is the second argument and uses $2.
C30_Witness ==
    /\ QueryComposed
    /\ resp.handler = "report"
    /\ resp.reportID = "audit-slow-actions"
    /\ resp.filters["min_response_time"].kind = "text"
    /\ resp.filters["status_code"] = IntParam(500)
    /\ Len(resp.query.args) = 2
    /\ resp.query.where[2] = [col |-> "status_code", op |-> "=", ph |-> 2]
    /\ resp.query.args[2] = IntParam(500)

====
